---- MODULE Spec2Model ----
(***************************************************************************)
(* Verification model of the ClawBot coordinator                           *)
(* (src/src/clawbot_coordinator): the Bot and Task aggregates, the         *)
(* BotService / TaskService coordination operations over the bot and task  *)
(* stores, and the TimeoutWorker sweep.                                    *)
(*                                                                         *)
(* Time is an integer clock `now` (seconds).  Identities (uuid4) are       *)
(* modelled as creation ordinals: the n-th created task has id n, so id    *)
(* order is created_at order.  Fields that no modelled operation reads     *)
(* (payload, metadata, name, capabilities, assigned_at, updated_at) are    *)
(* not carried.                                                            *)
(***************************************************************************)
EXTENDS Integers, Sequences, FiniteSets, TLC

\* ------------------------------------------------------------------ bounds
\* Spec: the service calls
NumBots  == 1      \* bot ids are 1..NumBots
NumTasks == 2      \* task ids are 1..NumTasks
MaxTime  == 1      \* the clock runs 0..MaxTime
\* SpecSweep: the sweeper and the calls around it
SweepBots    == 1
SweepTasks   == 2
SweepMaxTime == 2

BotIds  == 1..NumBots
TaskIds == 1..NumTasks

\* inputs of create_task (timeout_seconds is validated to 1..3600)
TimeoutInputs    == {1}
WorkflowIdInputs == {1}

\* ------------------------------------------------------------ null values
NoBot  == 0        \* bot_id = None
NoTime == -1       \* a datetime field that is None

NoResult == [reason |-> "none", timeout_seconds |-> 0]          \* result = None
\* results and errors reported by workers (opaque dicts)
ResultInputs == {[reason |-> "ok", timeout_seconds |-> 0]}
ErrorInputs  == {[reason |-> "error", timeout_seconds |-> 0]}

\* --------------------------------------------------------------- exceptions
NoExc == [type |-> "none", entity |-> "", state |-> "", action |-> "", id |-> 0]

ResourceNotFound(resource_type, resource_id) ==
    [type |-> "ResourceNotFound", entity |-> resource_type, state |-> "",
     action |-> "", id |-> resource_id]

InvalidStateTransition(entity_type, current_state, attempted_action) ==
    [type |-> "InvalidStateTransition", entity |-> entity_type,
     state |-> current_state, action |-> attempted_action, id |-> 0]

\* the outcome of a method: the exception raised (NoExc if none) and the object
Return(obj) == [exc |-> NoExc, val |-> obj]
Raise(e, obj) == [exc |-> e, val |-> obj]

\* ------------------------------------------------------------ Bot aggregate
NewBot(id) == [id |-> id, status |-> "offline", last_seen |-> NoTime]

\* go_online() that leaves last_seen as it was
Bot_go_online_keeps_last_seen(bot, t) == [bot EXCEPT !.status = "online"]

Bot_go_online(bot, t) == [bot EXCEPT !.status = "online", !.last_seen = t]

\* go_busy() without its guard
Bot_go_busy_unguarded(bot) == Return([bot EXCEPT !.status = "busy"])

Bot_go_busy(bot) ==
    IF bot.status # "online"
    THEN Raise(InvalidStateTransition("Bot", bot.status, "go_busy"), bot)
    ELSE Return([bot EXCEPT !.status = "busy"])

\* go_offline() that also forgets when the bot was last seen
Bot_go_offline_clears_last_seen(bot) ==
    [bot EXCEPT !.status = "offline", !.last_seen = NoTime]

Bot_go_offline(bot) == [bot EXCEPT !.status = "offline"]

\* heartbeat() that sets every bot online
Bot_heartbeat_sets_online(bot, t) == [bot EXCEPT !.status = "online", !.last_seen = t]

Bot_heartbeat(bot, t) ==
    [bot EXCEPT !.status = IF bot.status = "offline" THEN "online" ELSE @,
                !.last_seen = t]

\* ----------------------------------------------------------- Task aggregate
NewTask(id, workflow_id, timeout_seconds) ==
    [id |-> id, workflow_id |-> workflow_id, bot_id |-> NoBot, status |-> "pending",
     result |-> NoResult, timeout_seconds |-> timeout_seconds,
     started_at |-> NoTime, completed_at |-> NoTime]

\* assign_to() without its guard
Task_assign_to_unguarded(task, bot_id) ==
    Return([task EXCEPT !.status = "assigned", !.bot_id = bot_id])

Task_assign_to(task, bot_id) ==
    IF task.status # "pending"
    THEN Raise(InvalidStateTransition("Task", task.status, "assign_to"), task)
    ELSE Return([task EXCEPT !.status = "assigned", !.bot_id = bot_id])

\* start() without its guard
Task_start_unguarded(task, t) ==
    Return([task EXCEPT !.status = "in_progress", !.started_at = t])

Task_start(task, t) ==
    IF task.status # "assigned"
    THEN Raise(InvalidStateTransition("Task", task.status, "start"), task)
    ELSE Return([task EXCEPT !.status = "in_progress", !.started_at = t])

Task_complete(task, result, t) ==
    IF task.status # "in_progress"
    THEN Raise(InvalidStateTransition("Task", task.status, "complete"), task)
    ELSE Return([task EXCEPT !.status = "completed", !.result = result,
                             !.completed_at = t])

\* fail() that reports the wrong action in its error
Task_fail_misreported(task, error, t) ==
    IF task.status # "in_progress"
    THEN Raise(InvalidStateTransition("Task", task.status, "complete"), task)
    ELSE Return([task EXCEPT !.status = "failed", !.result = error,
                             !.completed_at = t])

\* fail() that does not store the error
Task_fail_drops_error(task, error, t) ==
    IF task.status # "in_progress"
    THEN Raise(InvalidStateTransition("Task", task.status, "fail"), task)
    ELSE Return([task EXCEPT !.status = "failed", !.completed_at = t])

Task_fail(task, error, t) ==
    IF task.status # "in_progress"
    THEN Raise(InvalidStateTransition("Task", task.status, "fail"), task)
    ELSE Return([task EXCEPT !.status = "failed", !.result = error,
                             !.completed_at = t])

\* cancel() that also forgets the task's bot
Task_cancel_clears_bot(task, t) ==
    [task EXCEPT !.status = "cancelled", !.completed_at = t, !.bot_id = NoBot]

Task_cancel(task, t) == [task EXCEPT !.status = "cancelled", !.completed_at = t]

\* is_timed_out() with >= in place of >
Task_is_timed_out_inclusive(task, t) ==
    IF task.status # "in_progress" THEN FALSE
    ELSE IF task.started_at = NoTime THEN FALSE
    ELSE (t - task.started_at) >= task.timeout_seconds

\* is_timed_out() without the test of the status
Task_is_timed_out_any_status(task, t) ==
    IF task.started_at = NoTime THEN FALSE
    ELSE (t - task.started_at) > task.timeout_seconds

\* is_timed_out() that allows one more second
Task_is_timed_out_late(task, t) ==
    IF task.status # "in_progress" THEN FALSE
    ELSE IF task.started_at = NoTime THEN FALSE
    ELSE (t - task.started_at) > task.timeout_seconds + 1

Task_is_timed_out(task, t) ==
    IF task.status # "in_progress" THEN FALSE
    ELSE IF task.started_at = NoTime THEN FALSE
    ELSE (t - task.started_at) > task.timeout_seconds

Task_is_terminal(task) == task.status \in {"completed", "failed", "cancelled"}

\* ------------------------------------------------------- Workflow aggregate
NewWorkflow(id) ==
    [id |-> id, status |-> "pending", task_ids |-> << >>,
     started_at |-> NoTime, completed_at |-> NoTime]

\* start() without its guard
Workflow_start_unguarded(workflow, t) ==
    Return([workflow EXCEPT !.status = "in_progress", !.started_at = t])

Workflow_start(workflow, t) ==
    IF workflow.status # "pending"
    THEN Raise(InvalidStateTransition("Workflow", workflow.status, "start"), workflow)
    ELSE Return([workflow EXCEPT !.status = "in_progress", !.started_at = t])

Workflow_complete(workflow, t) ==
    IF workflow.status # "in_progress"
    THEN Raise(InvalidStateTransition("Workflow", workflow.status, "complete"), workflow)
    ELSE Return([workflow EXCEPT !.status = "completed", !.completed_at = t])

Workflow_fail(workflow, t) ==
    IF workflow.status # "in_progress"
    THEN Raise(InvalidStateTransition("Workflow", workflow.status, "fail"), workflow)
    ELSE Return([workflow EXCEPT !.status = "failed", !.completed_at = t])

Workflow_cancel(workflow, t) ==
    [workflow EXCEPT !.status = "cancelled",
                     !.completed_at = IF @ = NoTime THEN t ELSE @]

\* add_task() that puts the new id first
Workflow_add_task_prepends(workflow, task_id) ==
    [workflow EXCEPT !.task_ids = <<task_id>> \o @]

Workflow_add_task(workflow, task_id) ==
    [workflow EXCEPT !.task_ids = Append(@, task_id)]

NoWorkflow == NewWorkflow(0)

\* placeholders for a local variable that holds no object
NoTask == NewTask(0, 0, 0)
NoBotRec == NewBot(0)

\* ------------------------------------------------------------------- state
VARIABLES
    bots,        \* bot store: bot id -> Bot, for the stored ids
    tasks,       \* task store: task id -> Task, for the stored ids
    nextBot,     \* number of bots registered so far (next id is nextBot + 1)
    nextTask,    \* number of tasks created so far
    now,         \* the clock
    ret,         \* outcome of the most recent service call (exception or NoExc)
    \* TimeoutWorker.process_timeouts, between its awaits
    sw_pc,            \* "idle", "loop", "get_task", "save_task", "get_bot", "save_bot"
    all_tasks,        \* the list returned by get_all at the start of the pass
    idx,              \* position of the for loop in all_tasks
    current_task,     \* the task re-read (and failed) for the current candidate
    sw_bot,           \* the bot fetched (and set online) for the current candidate
    timed_out_count,  \* the pass's counter, its return value once the pass ends
    sw_saves,         \* number of store saves the pass has made so far
    \* TimeoutWorker: its fields, its background task, its callers
    running,          \* self._running
    worker_task,      \* self._task is not None
    live_loops,       \* number of _run_loop tasks created and not yet ended
    loop_pc,          \* "none", "created", "pass", "sleep", "done"
    cancel_req,       \* self._task.cancel() was called and is not yet delivered
    stop_pc,          \* "idle", or "awaiting" while stop() awaits self._task
    wk_ret,           \* what the most recent start() or stop() did
    error_log,        \* ids of the tasks logged by the pass's except clause
    pass_exc,         \* the most recent pass raised into _run_loop
    \* WebSocketConnectionManager and broadcast_task_assignment
    connections,      \* self._connections: set of <<bot id, websocket>> items
    connection_info,  \* self._connection_info: set of <<bot id, connected_at>>
    ws_call,          \* the most recent connect or disconnect, and whether the
                      \* bot had an entry when it was called
    bc_pc,            \* "idle", "get_task", "send"
    bc_args,          \* the call's task_id, bot_id and the websocket it fetched
    bc_ret,           \* the most recent broadcast response
    sent,             \* the latest <<bot id, websocket, task id>> passed to
                      \* send_json, as a set (empty before the first send)
    \* concurrent callers of TaskService.assign_task_to_bot, between awaits
    as_pc,            \* per caller: "idle", "get_task", "get_bot", "save", "done"
    as_args,          \* per caller: the call's task_id and bot_id
    as_task,          \* per caller: the local variable task
    as_ret,           \* per caller: the exception its latest call raised
    \* websocket_control
    handlers,         \* per bot id: the websockets of the handlers inside their
                      \* message loop, in the order in which they were accepted
    \* workflows, and the request that runs WorkflowService.create_workflow
    workflows,        \* workflow store: workflow id -> Workflow, as committed
    nextWorkflow,     \* number of Workflow objects built so far
    cw_pc,            \* "idle", "tasks", "save", "returned", "raised"
    cw_workflow,      \* the local variable workflow
    cw_payloads,      \* len(task_payloads) of the call under way
    cw_ret,           \* the exception the most recent create_workflow raised
    tx_tasks,         \* tasks the request's session has flushed, not committed
    tx_workflows      \* workflows the request's session has flushed, not committed

swvars == <<sw_pc, all_tasks, idx, current_task, sw_bot, timed_out_count, sw_saves>>
wkvars == <<running, worker_task, live_loops, loop_pc, cancel_req, stop_pc, wk_ret,
            error_log, pass_exc>>
wsvars == <<connections, connection_info, ws_call, bc_pc, bc_args, bc_ret, sent>>
asvars == <<as_pc, as_args, as_task, as_ret>>
wfvars == <<workflows, nextWorkflow, cw_pc, cw_workflow, cw_payloads, cw_ret, tx_tasks,
            tx_workflows>>
extvars == <<wkvars, wsvars, asvars, handlers, wfvars>>
vars == <<bots, tasks, nextBot, nextTask, now, ret, swvars, wkvars, wsvars, asvars, handlers,
          wfvars>>

\* the stores' get (None = absent) and save (insert or update)
Has(store, id) == id \in DOMAIN store
Save(store, id, obj) == (id :> obj) @@ store
Delete(store, id) == [k \in DOMAIN store \ {id} |-> store[k]]

\* TimeoutWorker.__init__, and no caller inside start() or stop()
WorkerInit ==
    /\ running = FALSE
    /\ worker_task = FALSE
    /\ live_loops = 0
    /\ loop_pc = "none"
    /\ cancel_req = FALSE
    /\ stop_pc = "idle"
    /\ wk_ret = "none"
    /\ error_log = {}
    /\ pass_exc = FALSE

NoWebSocket == 0     \* get_connection(bot_id) is None
NoArgs == [task_id |-> 0, bot_id |-> 0, websocket |-> NoWebSocket]
NoCall == [op |-> "none", bot_id |-> 0, websocket |-> NoWebSocket, was_connected |-> FALSE]
NoResponse == [status_code |-> 0, detail |-> ""]

\* WebSocketConnectionManager.__init__, and no broadcast under way
WsInit ==
    /\ connections = {}
    /\ connection_info = {}
    /\ ws_call = NoCall
    /\ bc_pc = "idle"
    /\ bc_args = NoArgs
    /\ bc_ret = NoResponse
    /\ sent = {}

AssignCallers == 2
Callers == 1..AssignCallers
NoAssignArgs == [task_id |-> 0, bot_id |-> 0]

\* no assign_task_to_bot call under way
AssignInit ==
    /\ as_pc = [c \in Callers |-> "idle"]
    /\ as_args = [c \in Callers |-> NoAssignArgs]
    /\ as_task = [c \in Callers |-> NoTask]
    /\ as_ret = [c \in Callers |-> NoExc]

\* no websocket_control handler running
ControlInit == handlers = [b \in {} |-> << >>]

\* no workflow stored, no create_workflow request under way
WorkflowInit ==
    /\ workflows = << >>
    /\ nextWorkflow = 0
    /\ cw_pc = "idle"
    /\ cw_workflow = NoWorkflow
    /\ cw_payloads = 0
    /\ cw_ret = NoExc
    /\ tx_tasks = << >>
    /\ tx_workflows = << >>

Init ==
    /\ WorkerInit
    /\ WsInit
    /\ AssignInit
    /\ ControlInit
    /\ WorkflowInit
    /\ bots = << >>
    /\ tasks = << >>
    /\ nextBot = 0
    /\ nextTask = 0
    /\ now = 0
    /\ ret = NoExc
    /\ sw_pc = "idle"
    /\ all_tasks = << >>
    /\ idx = 0
    /\ current_task = NoTask
    /\ sw_bot = NoBotRec
    /\ timed_out_count = 0
    /\ sw_saves = 0

Tick ==
    /\ now' = now + 1
    /\ UNCHANGED <<bots, tasks, nextBot, nextTask, ret, swvars>>

\* ------------------------------------------------------------- BotService
register_bot ==
    /\ bots' = Save(bots, nextBot + 1, NewBot(nextBot + 1))
    /\ nextBot' = nextBot + 1
    /\ ret' = NoExc
    /\ UNCHANGED <<tasks, nextTask, now, swvars>>

BotService_heartbeat(bot_id) ==
    /\ IF ~Has(bots, bot_id)
       THEN /\ ret' = ResourceNotFound("Bot", bot_id)
            /\ UNCHANGED bots
       ELSE /\ bots' = Save(bots, bot_id, Bot_heartbeat(bots[bot_id], now))
            /\ ret' = NoExc
    /\ UNCHANGED <<tasks, nextBot, nextTask, now, swvars>>

mark_bot_busy(bot_id) ==
    /\ IF ~Has(bots, bot_id)
       THEN /\ ret' = ResourceNotFound("Bot", bot_id)
            /\ UNCHANGED bots
       ELSE LET r == Bot_go_busy(bots[bot_id]) IN
            IF r.exc # NoExc
            THEN /\ ret' = r.exc
                 /\ UNCHANGED bots
            ELSE /\ bots' = Save(bots, bot_id, r.val)
                 /\ ret' = NoExc
    /\ UNCHANGED <<tasks, nextBot, nextTask, now, swvars>>

mark_bot_available(bot_id) ==
    /\ IF ~Has(bots, bot_id)
       THEN /\ ret' = ResourceNotFound("Bot", bot_id)
            /\ UNCHANGED bots
       ELSE /\ bots' = Save(bots, bot_id, Bot_go_online(bots[bot_id], now))
            /\ ret' = NoExc
    /\ UNCHANGED <<tasks, nextBot, nextTask, now, swvars>>

delete_bot(bot_id) ==
    /\ IF ~Has(bots, bot_id)
       THEN /\ ret' = ResourceNotFound("Bot", bot_id)
            /\ UNCHANGED bots
       ELSE /\ bots' = Delete(bots, bot_id)
            /\ ret' = NoExc
    /\ UNCHANGED <<tasks, nextBot, nextTask, now, swvars>>

\* ------------------------------------------------------------ TaskService
\* "Free the bot if task was assigned": the bot store after the release step
\* that ends complete_task, fail_task and cancel_task
\* the release step without the go_online() call
FreeBot_stays_busy(store, task, t) ==
    IF task.bot_id # NoBot
    THEN IF Has(store, task.bot_id) /\ store[task.bot_id].status = "busy"
         THEN Save(store, task.bot_id, store[task.bot_id])
         ELSE store
    ELSE store

\* the release step without the test of the bot's status
FreeBot_any_status(store, task, t) ==
    IF task.bot_id # NoBot
    THEN IF Has(store, task.bot_id)
         THEN Save(store, task.bot_id, Bot_go_online(store[task.bot_id], t))
         ELSE store
    ELSE store

FreeBot(store, task, t) ==
    IF task.bot_id # NoBot
    THEN IF Has(store, task.bot_id) /\ store[task.bot_id].status = "busy"
         THEN Save(store, task.bot_id, Bot_go_online(store[task.bot_id], t))
         ELSE store
    ELSE store

create_task(workflow_id, timeout_seconds) ==
    /\ tasks' = Save(tasks, nextTask + 1, NewTask(nextTask + 1, workflow_id, timeout_seconds))
    /\ nextTask' = nextTask + 1
    /\ ret' = NoExc
    /\ UNCHANGED <<bots, nextBot, now, swvars>>

\* assign without the lookup of the bot
assign_task_to_bot_unchecked_bot(task_id, bot_id) ==
    /\ IF ~Has(tasks, task_id)
       THEN /\ ret' = ResourceNotFound("Task", task_id)
            /\ UNCHANGED tasks
       ELSE LET r == Task_assign_to(tasks[task_id], bot_id) IN
            IF r.exc # NoExc
            THEN /\ ret' = r.exc
                 /\ UNCHANGED tasks
            ELSE /\ tasks' = Save(tasks, task_id, r.val)
                 /\ ret' = NoExc
    /\ UNCHANGED <<bots, nextBot, nextTask, now, swvars>>

\* assign that also saves the bot as busy
assign_task_to_bot_marks_busy(task_id, bot_id) ==
    /\ IF ~Has(tasks, task_id)
       THEN /\ ret' = ResourceNotFound("Task", task_id)
            /\ UNCHANGED <<tasks, bots>>
       ELSE IF ~Has(bots, bot_id)
       THEN /\ ret' = ResourceNotFound("Bot", bot_id)
            /\ UNCHANGED <<tasks, bots>>
       ELSE LET r == Task_assign_to(tasks[task_id], bot_id) IN
            IF r.exc # NoExc
            THEN /\ ret' = r.exc
                 /\ UNCHANGED <<tasks, bots>>
            ELSE /\ tasks' = Save(tasks, task_id, r.val)
                 /\ bots' = Save(bots, bot_id, [bots[bot_id] EXCEPT !.status = "busy"])
                 /\ ret' = NoExc
    /\ UNCHANGED <<nextBot, nextTask, now, swvars>>

assign_task_to_bot(task_id, bot_id) ==
    /\ IF ~Has(tasks, task_id)
       THEN /\ ret' = ResourceNotFound("Task", task_id)
            /\ UNCHANGED tasks
       ELSE IF ~Has(bots, bot_id)
       THEN /\ ret' = ResourceNotFound("Bot", bot_id)
            /\ UNCHANGED tasks
       ELSE LET r == Task_assign_to(tasks[task_id], bot_id) IN
            IF r.exc # NoExc
            THEN /\ ret' = r.exc
                 /\ UNCHANGED tasks
            ELSE /\ tasks' = Save(tasks, task_id, r.val)
                 /\ ret' = NoExc
    /\ UNCHANGED <<bots, nextBot, nextTask, now, swvars>>

start_task(task_id) ==
    /\ IF ~Has(tasks, task_id)
       THEN /\ ret' = ResourceNotFound("Task", task_id)
            /\ UNCHANGED tasks
       ELSE LET r == Task_start(tasks[task_id], now) IN
            IF r.exc # NoExc
            THEN /\ ret' = r.exc
                 /\ UNCHANGED tasks
            ELSE /\ tasks' = Save(tasks, task_id, r.val)
                 /\ ret' = NoExc
    /\ UNCHANGED <<bots, nextBot, nextTask, now, swvars>>

complete_task(task_id, result) ==
    /\ IF ~Has(tasks, task_id)
       THEN /\ ret' = ResourceNotFound("Task", task_id)
            /\ UNCHANGED <<tasks, bots>>
       ELSE LET r == Task_complete(tasks[task_id], result, now) IN
            IF r.exc # NoExc
            THEN /\ ret' = r.exc
                 /\ UNCHANGED <<tasks, bots>>
            ELSE /\ tasks' = Save(tasks, task_id, r.val)
                 /\ bots' = FreeBot(bots, r.val, now)
                 /\ ret' = NoExc
    /\ UNCHANGED <<nextBot, nextTask, now, swvars>>

fail_task(task_id, error) ==
    /\ IF ~Has(tasks, task_id)
       THEN /\ ret' = ResourceNotFound("Task", task_id)
            /\ UNCHANGED <<tasks, bots>>
       ELSE LET r == Task_fail(tasks[task_id], error, now) IN
            IF r.exc # NoExc
            THEN /\ ret' = r.exc
                 /\ UNCHANGED <<tasks, bots>>
            ELSE /\ tasks' = Save(tasks, task_id, r.val)
                 /\ bots' = FreeBot(bots, r.val, now)
                 /\ ret' = NoExc
    /\ UNCHANGED <<nextBot, nextTask, now, swvars>>

cancel_task(task_id) ==
    /\ IF ~Has(tasks, task_id)
       THEN /\ ret' = ResourceNotFound("Task", task_id)
            /\ UNCHANGED <<tasks, bots>>
       ELSE LET task == Task_cancel(tasks[task_id], now) IN
            /\ tasks' = Save(tasks, task_id, task)
            /\ bots' = FreeBot(bots, task, now)
            /\ ret' = NoExc
    /\ UNCHANGED <<nextBot, nextTask, now, swvars>>

delete_task(task_id) ==
    /\ IF ~Has(tasks, task_id)
       THEN /\ ret' = ResourceNotFound("Task", task_id)
            /\ UNCHANGED tasks
       ELSE /\ tasks' = Delete(tasks, task_id)
            /\ ret' = NoExc
    /\ UNCHANGED <<bots, nextBot, nextTask, now, swvars>>

\* --------------------------------------------------------- specification
Next ==
    \/ now < MaxTime /\ Tick /\ UNCHANGED extvars
    \/ nextBot < NumBots /\ register_bot /\ UNCHANGED extvars
    \/ \E b \in BotIds : BotService_heartbeat(b) /\ UNCHANGED extvars
    \/ \E b \in BotIds : mark_bot_busy(b) /\ UNCHANGED extvars
    \/ \E b \in BotIds : mark_bot_available(b) /\ UNCHANGED extvars
    \/ \E b \in BotIds : delete_bot(b) /\ UNCHANGED extvars
    \/ nextTask < NumTasks /\ \E w \in WorkflowIdInputs, s \in TimeoutInputs : create_task(w, s) /\ UNCHANGED extvars
    \/ \E t \in TaskIds, b \in BotIds : assign_task_to_bot(t, b) /\ UNCHANGED extvars
    \/ \E t \in TaskIds : start_task(t) /\ UNCHANGED extvars
    \/ \E t \in TaskIds, r \in ResultInputs : complete_task(t, r) /\ UNCHANGED extvars
    \/ \E t \in TaskIds, e \in ErrorInputs : fail_task(t, e) /\ UNCHANGED extvars
    \/ \E t \in TaskIds : cancel_task(t) /\ UNCHANGED extvars
    \/ \E t \in TaskIds : delete_task(t) /\ UNCHANGED extvars

Spec == Init /\ [][Next]_vars

\* ------------------------------------------------------------ task store
GetAllLimit == 100     \* get_all(skip=0, limit=100)

Min(a, b) == IF a < b THEN a ELSE b

\* the i-th newest stored id (ORDER BY created_at DESC)
NthNewest(ids, i) == CHOOSE x \in ids : Cardinality({y \in ids : y > x}) = i - 1

get_all(store, skip, limit) ==
    LET n == Cardinality(DOMAIN store)
    IN [i \in 1..Min(limit, IF n > skip THEN n - skip ELSE 0)
            |-> store[NthNewest(DOMAIN store, i + skip)]]

\* ---------------------------------------------------------- TimeoutWorker
\* error details that report the default timeout instead of the task's
error_details_default_timeout(task) ==
    [reason |-> "timeout",
     message |-> "Task exceeded timeout of 300 seconds",
     timeout_seconds |-> 300]

error_details(task) ==
    [reason |-> "timeout",
     message |-> "Task exceeded timeout of " \o ToString(task.timeout_seconds)
                     \o " seconds",
     timeout_seconds |-> task.timeout_seconds]

\* `continue` / the end of an iteration: on to the next listed task
SweepContinue ==
    /\ idx' = idx + 1
    /\ current_task' = NoTask
    /\ sw_bot' = NoBotRec
    /\ sw_pc' = "loop"

\* all_tasks = await self._task_repo.get_all(); timed_out_count = 0
SweepGetAll ==
    /\ sw_pc = "idle"
    /\ all_tasks' = get_all(tasks, 0, GetAllLimit)
    /\ idx' = 1
    /\ timed_out_count' = 0
    /\ sw_pc' = "loop"
    /\ UNCHANGED <<bots, tasks, nextBot, nextTask, now, ret, current_task, sw_bot,
                   sw_saves>>

\* for task in all_tasks: if task.is_timed_out(): ...; after the loop, return
SweepLoop ==
    /\ sw_pc = "loop"
    /\ IF idx > Len(all_tasks)
       THEN \* return timed_out_count: the pass is over, its locals are gone
            /\ sw_pc' = "idle"
            /\ all_tasks' = << >>
            /\ idx' = 0
            /\ timed_out_count' = 0
            /\ sw_saves' = 0
       ELSE IF Task_is_timed_out(all_tasks[idx], now)
       THEN /\ sw_pc' = "get_task"
            /\ UNCHANGED <<all_tasks, idx, timed_out_count, sw_saves>>
       ELSE /\ idx' = idx + 1
            /\ UNCHANGED <<all_tasks, sw_pc, timed_out_count, sw_saves>>
    /\ UNCHANGED <<bots, tasks, nextBot, nextTask, now, ret, current_task, sw_bot>>

\* the pass without the re-read: it fails the listed copy of the task
SweepGetTask_stale_copy ==
    /\ sw_pc = "get_task"
    /\ LET r == Task_fail(all_tasks[idx], error_details(all_tasks[idx]), now) IN
       IF r.exc # NoExc
       THEN SweepContinue
       ELSE /\ current_task' = r.val
            /\ sw_pc' = "save_task"
            /\ UNCHANGED <<idx, sw_bot>>
    /\ UNCHANGED <<bots, tasks, nextBot, nextTask, now, ret, all_tasks,
                   timed_out_count, sw_saves>>

\* current_task = await self._task_repo.get(task.id), the None and terminal
\* checks, and current_task.fail(error_details)
SweepGetTask ==
    /\ sw_pc = "get_task"
    /\ LET id == all_tasks[idx].id IN
       IF ~Has(tasks, id)
       THEN SweepContinue
       ELSE IF Task_is_terminal(tasks[id])
       THEN SweepContinue
       ELSE LET r == Task_fail(tasks[id], error_details(tasks[id]), now) IN
            IF r.exc # NoExc
            THEN SweepContinue
            ELSE /\ current_task' = r.val
                 /\ sw_pc' = "save_task"
                 /\ UNCHANGED <<idx, sw_bot>>
    /\ UNCHANGED <<bots, tasks, nextBot, nextTask, now, ret, all_tasks,
                   timed_out_count, sw_saves>>

\* await self._task_repo.save(current_task); if current_task.bot_id: ...
SweepSaveTask ==
    /\ sw_pc = "save_task"
    /\ tasks' = Save(tasks, current_task.id, current_task)
    /\ sw_saves' = sw_saves + 1
    /\ IF current_task.bot_id # NoBot
       THEN /\ sw_pc' = "get_bot"
            /\ UNCHANGED <<idx, current_task, sw_bot, timed_out_count>>
       ELSE /\ timed_out_count' = timed_out_count + 1
            /\ SweepContinue
    /\ UNCHANGED <<bots, nextBot, nextTask, now, ret, all_tasks>>

\* bot = await self._bot_repo.get(current_task.bot_id); the busy check and
\* bot.go_online()
SweepGetBot ==
    /\ sw_pc = "get_bot"
    /\ LET b == current_task.bot_id IN
       IF Has(bots, b) /\ bots[b].status = "busy"
       THEN /\ sw_bot' = Bot_go_online(bots[b], now)
            /\ sw_pc' = "save_bot"
            /\ UNCHANGED <<idx, current_task, timed_out_count>>
       ELSE /\ timed_out_count' = timed_out_count + 1
            /\ SweepContinue
    /\ UNCHANGED <<bots, tasks, nextBot, nextTask, now, ret, all_tasks, sw_saves>>

\* await self._bot_repo.save(bot); timed_out_count += 1
SweepSaveBot ==
    /\ sw_pc = "save_bot"
    /\ bots' = Save(bots, sw_bot.id, sw_bot)
    /\ sw_saves' = sw_saves + 1
    /\ timed_out_count' = timed_out_count + 1
    /\ SweepContinue
    /\ UNCHANGED <<tasks, nextBot, nextTask, now, ret, all_tasks>>

process_timeouts ==
    \/ SweepGetAll
    \/ SweepLoop
    \/ SweepGetTask
    \/ SweepSaveTask
    \/ SweepGetBot
    \/ SweepSaveBot

\* The sweeper together with the service calls that change a store.  A call
\* that raises leaves both stores as they were, so here the callers make
\* the calls that succeed.
EnvNext ==
    \/ now < SweepMaxTime /\ Tick /\ UNCHANGED extvars
    \/ nextBot < SweepBots /\ register_bot /\ UNCHANGED extvars
    \/ \E b \in DOMAIN bots : bots[b].status = "offline" /\ BotService_heartbeat(b) /\ UNCHANGED extvars
    \/ \E b \in DOMAIN bots : bots[b].status = "online" /\ mark_bot_busy(b) /\ UNCHANGED extvars
    \/ \E b \in DOMAIN bots : delete_bot(b) /\ UNCHANGED extvars
    \/ nextTask < SweepTasks /\ \E w \in WorkflowIdInputs, s \in TimeoutInputs : create_task(w, s) /\ UNCHANGED extvars
    \/ \E t \in DOMAIN tasks, b \in DOMAIN bots :
           tasks[t].status = "pending" /\ assign_task_to_bot(t, b) /\ UNCHANGED extvars
    \/ \E t \in DOMAIN tasks : tasks[t].status = "assigned" /\ start_task(t) /\ UNCHANGED extvars
    \/ \E t \in DOMAIN tasks, r \in ResultInputs :
           tasks[t].status = "in_progress" /\ complete_task(t, r) /\ UNCHANGED extvars
    \/ \E t \in DOMAIN tasks, e \in ErrorInputs :
           tasks[t].status = "in_progress" /\ fail_task(t, e) /\ UNCHANGED extvars
    \/ \E t \in DOMAIN tasks : cancel_task(t) /\ UNCHANGED extvars
    \/ \E t \in DOMAIN tasks : delete_task(t) /\ UNCHANGED extvars

SweepNext ==
    \/ SweepGetAll /\ UNCHANGED extvars
    \/ SweepLoop /\ UNCHANGED extvars
    \/ SweepGetTask /\ UNCHANGED extvars
    \/ SweepSaveTask /\ UNCHANGED extvars
    \/ SweepGetBot /\ UNCHANGED extvars
    \/ SweepSaveBot /\ UNCHANGED extvars
    \/ EnvNext

SpecSweep == Init /\ [][SweepNext]_vars

\* ================================================================= claims
IsTaskGuardError(e, state, action) ==
    e = [type |-> "InvalidStateTransition", entity |-> "Task", state |-> state,
         action |-> action, id |-> 0]

AllowedEdge(old, new) ==
    \/ <<old, new>> \in {<<"pending", "assigned">>, <<"assigned", "in_progress">>,
                         <<"in_progress", "completed">>, <<"in_progress", "failed">>}
    \/ new = "cancelled"

\* C1: a task's status changes only along pending->assigned (assign),
\* assigned->in_progress (start), in_progress->completed (complete),
\* in_progress->failed (fail) and any->cancelled (cancel); a call that attempts
\* any other edge raises InvalidStateTransition and leaves the status as it was.
C1_TaskEdges ==
    [][\A t \in DOMAIN tasks :
        /\ (t \in DOMAIN tasks' /\ tasks'[t].status # tasks[t].status) =>
              /\ AllowedEdge(tasks[t].status, tasks'[t].status)
              /\ tasks'[t].status = "assigned" =>
                     \E b \in BotIds : assign_task_to_bot(t, b)
              /\ tasks'[t].status = "in_progress" => start_task(t)
              /\ tasks'[t].status = "completed" =>
                     \E r \in ResultInputs : complete_task(t, r)
              /\ tasks'[t].status = "failed" =>
                     \E e \in ErrorInputs : fail_task(t, e)
              /\ tasks'[t].status = "cancelled" => cancel_task(t)
        /\ ((\E b \in DOMAIN bots : assign_task_to_bot(t, b))
                /\ tasks[t].status # "pending") =>
              ret'.type = "InvalidStateTransition" /\ tasks'[t].status = tasks[t].status
        /\ (start_task(t) /\ tasks[t].status # "assigned") =>
              ret'.type = "InvalidStateTransition" /\ tasks'[t].status = tasks[t].status
        /\ ((\E r \in ResultInputs : complete_task(t, r))
                /\ tasks[t].status # "in_progress") =>
              ret'.type = "InvalidStateTransition" /\ tasks'[t].status = tasks[t].status
        /\ ((\E e \in ErrorInputs : fail_task(t, e))
                /\ tasks[t].status # "in_progress") =>
              ret'.type = "InvalidStateTransition" /\ tasks'[t].status = tasks[t].status
      ]_vars

\* a rejected call has happened on one task while another went the whole way
C1_Witness ==
    /\ ret.type = "InvalidStateTransition" /\ ret.entity = "Task"
    /\ \E t \in DOMAIN tasks : tasks[t].status = "completed"
    /\ \E t \in DOMAIN tasks : tasks[t].status = "cancelled"

\* the bot of task t is stored and busy
BotBusyFor(t) ==
    /\ tasks[t].bot_id # NoBot
    /\ Has(bots, tasks[t].bot_id)
    /\ bots[tasks[t].bot_id].status = "busy"

\* C2: a successful complete_task, fail_task or cancel_task on a task whose
\* bot is stored and busy leaves that bot online and the task in the
\* corresponding terminal status.
C2_ReleaseOnTerminal ==
    [][\A t \in DOMAIN tasks :
        /\ ((\E r \in ResultInputs : complete_task(t, r)) /\ ret' = NoExc /\ BotBusyFor(t))
              => /\ bots'[tasks[t].bot_id].status = "online"
                 /\ tasks'[t].status = "completed"
        /\ ((\E e \in ErrorInputs : fail_task(t, e)) /\ ret' = NoExc /\ BotBusyFor(t))
              => /\ bots'[tasks[t].bot_id].status = "online"
                 /\ tasks'[t].status = "failed"
        /\ (cancel_task(t) /\ ret' = NoExc /\ BotBusyFor(t))
              => /\ bots'[tasks[t].bot_id].status = "online"
                 /\ tasks'[t].status = "cancelled"
      ]_vars

\* a task has just been completed and its bot set online by the same call
C2_Witness ==
    /\ ret = NoExc
    /\ \E t \in DOMAIN tasks :
          /\ tasks[t].status = "completed"
          /\ tasks[t].completed_at = now
          /\ tasks[t].started_at < now
          /\ Has(bots, tasks[t].bot_id)
          /\ bots[tasks[t].bot_id] =
                 [id |-> tasks[t].bot_id, status |-> "online", last_seen |-> now]

\* C3: a complete_task, fail_task or cancel_task call on a task that is
\* already terminal never changes the stored status of any bot.
C3_NoSecondRelease ==
    [][\A t \in DOMAIN tasks :
        (/\ Task_is_terminal(tasks[t])
         /\ \/ \E r \in ResultInputs : complete_task(t, r)
            \/ \E e \in ErrorInputs : fail_task(t, e)
            \/ cancel_task(t))
        => \A b \in DOMAIN bots : b \in DOMAIN bots' /\ bots'[b].status = bots[b].status
      ]_vars

\* C4: a service call that hits a task guard raises InvalidStateTransition
\* with entity Task, the task's current state and the attempted action, and
\* saves nothing: both stores are as before.
C4_GuardErrorNoSave ==
    [][\A t \in DOMAIN tasks :
        /\ ((\E b \in DOMAIN bots : assign_task_to_bot(t, b))
                /\ tasks[t].status # "pending")
              => /\ IsTaskGuardError(ret', tasks[t].status, "assign_to")
                 /\ UNCHANGED <<tasks, bots>>
        /\ (start_task(t) /\ tasks[t].status # "assigned")
              => /\ IsTaskGuardError(ret', tasks[t].status, "start")
                 /\ UNCHANGED <<tasks, bots>>
        /\ ((\E r \in ResultInputs : complete_task(t, r))
                /\ tasks[t].status # "in_progress")
              => /\ IsTaskGuardError(ret', tasks[t].status, "complete")
                 /\ UNCHANGED <<tasks, bots>>
        /\ ((\E e \in ErrorInputs : fail_task(t, e))
                /\ tasks[t].status # "in_progress")
              => /\ IsTaskGuardError(ret', tasks[t].status, "fail")
                 /\ UNCHANGED <<tasks, bots>>
      ]_vars

\* fail_task has been rejected on a task that is already terminal
C4_Witness ==
    /\ ret.type = "InvalidStateTransition"
    /\ ret.action = "fail"
    /\ ret.state \in {"completed", "failed", "cancelled"}
    /\ \E t \in DOMAIN tasks : tasks[t].status = ret.state

ActiveTasksOf(b) ==
    {t \in DOMAIN tasks :
        tasks[t].bot_id = b /\ tasks[t].status \in {"assigned", "in_progress"}}

\* C5: a bot stored as busy has at most one task bound to it whose status is
\* assigned or in_progress.
C5_BusyAtMostOneActive ==
    \A b \in DOMAIN bots :
        bots[b].status = "busy" => Cardinality(ActiveTasksOf(b)) <= 1

\* the candidate the sweeper is about to re-read is stored and terminal
RereadFindsTerminal ==
    /\ sw_pc = "get_task"
    /\ Has(tasks, all_tasks[idx].id)
    /\ tasks[all_tasks[idx].id].status \in {"completed", "failed", "cancelled"}

\* C6: when the sweeper re-reads a candidate (listed while in_progress) and
\* finds it terminal, it skips it: no save, no change to any task or bot, no
\* count, and the pass moves on to the next listed task.
C6_SkipTerminalOnReread ==
    [][(RereadFindsTerminal /\ SweepGetTask) =>
          /\ all_tasks[idx].status = "in_progress"
          /\ UNCHANGED <<tasks, bots, timed_out_count, sw_saves>>
          /\ sw_pc' = "loop"
          /\ idx' = idx + 1
      ]_vars

\* the sweeper has just skipped a candidate that a worker completed meanwhile
C6_Witness ==
    /\ sw_pc = "loop"
    /\ idx > 1
    /\ all_tasks[idx - 1].status = "in_progress"
    /\ Task_is_timed_out(all_tasks[idx - 1], now)
    /\ Has(tasks, all_tasks[idx - 1].id)
    /\ tasks[all_tasks[idx - 1].id].status = "completed"
    /\ timed_out_count = 0
    /\ sw_saves = 0

\* C7: a task the store records as completed is never afterwards saved as
\* failed by the sweeper.
C7_CompletedNeverSweptToFailed ==
    [][\A t \in DOMAIN tasks :
        (tasks[t].status = "completed" /\ SweepSaveTask) => tasks'[t].status = "completed"
      ]_vars

\* C9: the sweeper's save of an overdue task stores it as failed with a
\* non-null result whose reason is "timeout" and whose timeout_seconds is the
\* task's, exactly as fail_task's save would; the bot, fetched busy, is then
\* saved online; with the bot absent nothing is saved to the bot store and
\* the task is counted.
C9_SweepFailsLikeFailTask ==
    [][/\ SweepSaveTask =>
            LET k == current_task.id IN
            /\ tasks'[k].status = "failed"
            /\ tasks'[k].result # NoResult
            /\ tasks'[k].result.reason = "timeout"
            /\ tasks'[k].result.timeout_seconds = tasks'[k].timeout_seconds
            /\ \A t \in DOMAIN tasks \ {k} : t \in DOMAIN tasks' /\ tasks'[t] = tasks[t]
            /\ (Has(tasks, k) /\ tasks[k].status = "in_progress") =>
                   tasks' = Save(tasks, k,
                                 Task_fail(tasks[k], error_details(tasks[k]),
                                           current_task.completed_at).val)
            /\ UNCHANGED bots
       /\ (SweepGetBot /\ Has(bots, current_task.bot_id)
               /\ bots[current_task.bot_id].status = "busy") =>
            /\ sw_pc' = "save_bot"
            /\ sw_bot'.id = current_task.bot_id
       /\ SweepSaveBot =>
            /\ bots'[current_task.bot_id].status = "online"
            /\ \A b \in DOMAIN bots \ {current_task.bot_id} :
                   b \in DOMAIN bots' /\ bots'[b] = bots[b]
            /\ timed_out_count' = timed_out_count + 1
            /\ UNCHANGED tasks
       /\ (SweepGetBot /\ ~Has(bots, current_task.bot_id)) =>
            /\ UNCHANGED <<bots, tasks, sw_saves>>
            /\ timed_out_count' = timed_out_count + 1
            /\ sw_pc' = "loop"
      ]_vars

\* the sweeper has failed an overdue task and set its busy bot online
C9_Witness ==
    /\ sw_pc = "loop"
    /\ idx > 1
    /\ timed_out_count = 1
    /\ sw_saves = 2
    /\ LET k == all_tasks[idx - 1].id IN
       /\ Has(tasks, k)
       /\ tasks[k].status = "failed"
       /\ tasks[k].result.reason = "timeout"
       /\ Has(bots, tasks[k].bot_id)
       /\ bots[tasks[k].bot_id].status = "online"

\* no listed task is in progress past its timeout at the current time
NoListedOverdue ==
    \A i \in 1..Len(all_tasks) :
        ~(/\ all_tasks[i].status = "in_progress"
          /\ all_tasks[i].started_at # NoTime
          /\ now - all_tasks[i].started_at > all_tasks[i].timeout_seconds)

\* C10: a pass over a store in which no task is in progress past its timeout
\* (all earlier overdue tasks being failed already) ends having saved no
\* task and no bot and returns 0.
C10_ResweepIsNoop ==
    (sw_pc = "loop" /\ idx > Len(all_tasks) /\ NoListedOverdue)
        => (timed_out_count = 0 /\ sw_saves = 0)

\* a pass over a task that an earlier pass failed for timeout is about to return 0
C10_Witness ==
    /\ sw_pc = "loop"
    /\ idx > Len(all_tasks)
    /\ \E i \in 1..Len(all_tasks) :
          /\ all_tasks[i].status = "failed"
          /\ all_tasks[i].result.reason = "timeout"
    /\ timed_out_count = 0
    /\ sw_saves = 0

\* ---------------------------------------------------- the sweeper loop, fair
\* The worker loop runs pass after pass while tasks are created around it.
\* The store starts with one bot, busy, and its task in progress since time
\* 0 (register_bot, heartbeat, mark_bot_busy, create_task,
\* assign_task_to_bot, start_task); no worker ever reports back.
LiveMaxTime == 2
LiveTasks == GetAllLimit + 1     \* enough tasks to pass the limit of get_all

LiveInit ==
    /\ WorkerInit
    /\ WsInit
    /\ AssignInit
    /\ ControlInit
    /\ WorkflowInit
    /\ bots = (1 :> [id |-> 1, status |-> "busy", last_seen |-> 0])
    /\ tasks = (1 :> [NewTask(1, 1, 1) EXCEPT !.bot_id = 1, !.status = "in_progress",
                                             !.started_at = 0])
    /\ nextBot = 1
    /\ nextTask = 1
    /\ now = 0
    /\ ret = NoExc
    /\ sw_pc = "idle"
    /\ all_tasks = << >>
    /\ idx = 0
    /\ current_task = NoTask
    /\ sw_bot = NoBotRec
    /\ timed_out_count = 0
    /\ sw_saves = 0

LiveNext ==
    \/ now < LiveMaxTime /\ Tick /\ UNCHANGED extvars
    \/ sw_pc = "idle" /\ nextTask < LiveTasks
          /\ \E w \in WorkflowIdInputs, s \in TimeoutInputs : create_task(w, s) /\ UNCHANGED extvars
    \/ process_timeouts /\ UNCHANGED extvars

\* _run_loop keeps calling process_timeouts, and each await of a pass returns
SpecLive == LiveInit /\ [][LiveNext]_vars /\ WF_vars(process_timeouts /\ UNCHANGED extvars)

SomeTaskOverdue == \E t \in DOMAIN tasks : Task_is_timed_out(tasks[t], now)

\* C8: under a fairly scheduled sweeper loop, a task in progress past its
\* timeout that no worker finishes is eventually failed by a pass, however
\* many other tasks the store holds.
C8_OverdueEventuallyFailed ==
    SomeTaskOverdue ~> (Has(tasks, 1) /\ tasks[1].status = "failed")

\* the same, for a store that holds no more tasks than get_all returns
C8_OverdueFailedWithinLimit ==
    (SomeTaskOverdue /\ nextTask <= GetAllLimit)
        ~> ((Has(tasks, 1) /\ tasks[1].status = "failed") \/ nextTask > GetAllLimit)

\* ------------------------------------------------ TimeoutWorker lifecycle
\* The worker as main.py's lifespan drives it: start() and stop() are awaited
\* one after the other by one caller, the loop runs as a background task,
\* and the store calls of a pass may raise.  The stores start with
\* WorkerTasks tasks in progress since time 0, each on its own busy bot.
WorkerTasks   == 2
WorkerMaxTime == 2

corevars == <<bots, tasks, nextBot, nextTask, now, ret>>

WorkerStoreInit ==
    /\ bots = [b \in 1..WorkerTasks |-> [id |-> b, status |-> "busy", last_seen |-> 0]]
    /\ tasks = [t \in 1..WorkerTasks |->
                   [NewTask(t, 1, 1) EXCEPT !.bot_id = t, !.status = "in_progress",
                                            !.started_at = 0]]
    /\ nextBot = WorkerTasks
    /\ nextTask = WorkerTasks
    /\ now = 0
    /\ ret = NoExc
    /\ sw_pc = "idle"
    /\ all_tasks = << >>
    /\ idx = 0
    /\ current_task = NoTask
    /\ sw_bot = NoBotRec
    /\ timed_out_count = 0
    /\ sw_saves = 0

\* the pass's locals once process_timeouts has returned or was abandoned
SweepLocalsGone ==
    /\ sw_pc' = "idle"
    /\ all_tasks' = << >>
    /\ idx' = 0
    /\ current_task' = NoTask
    /\ sw_bot' = NoBotRec
    /\ timed_out_count' = 0
    /\ sw_saves' = 0

\* a second loop task is created although the worker is running
start_unguarded ==
    /\ stop_pc = "idle"
    /\ running' = TRUE
    /\ worker_task' = TRUE
    /\ live_loops' = live_loops + 1
    /\ loop_pc' = "created"
    /\ cancel_req' = FALSE
    /\ wk_ret' = "started"
    /\ UNCHANGED <<stop_pc, error_log, pass_exc>>

\* TimeoutWorker.start
start ==
    /\ stop_pc = "idle"
    /\ IF running
       THEN /\ wk_ret' = "already running"
            /\ UNCHANGED <<running, worker_task, live_loops, loop_pc, cancel_req>>
       ELSE /\ running' = TRUE
            /\ worker_task' = TRUE
            /\ live_loops' = live_loops + 1
            /\ loop_pc' = "created"
            /\ cancel_req' = FALSE
            /\ wk_ret' = "started"
    /\ UNCHANGED <<stop_pc, error_log, pass_exc>>

\* stop() that returns without awaiting the cancelled loop task
stop_no_await ==
    /\ stop_pc = "idle"
    /\ IF ~running
       THEN /\ wk_ret' = "not running"
            /\ UNCHANGED <<running, worker_task, cancel_req>>
       ELSE /\ running' = FALSE
            /\ worker_task' = FALSE
            /\ cancel_req' = worker_task
            /\ wk_ret' = "stopped"
    /\ UNCHANGED <<stop_pc, live_loops, loop_pc, error_log, pass_exc>>

\* TimeoutWorker.stop, up to its await of the loop task
stop ==
    /\ stop_pc = "idle"
    /\ IF ~running
       THEN /\ wk_ret' = "not running"
            /\ UNCHANGED <<running, worker_task, cancel_req, stop_pc>>
       ELSE /\ running' = FALSE
            /\ IF worker_task
               THEN /\ cancel_req' = TRUE
                    /\ stop_pc' = "awaiting"
                    /\ UNCHANGED <<worker_task, wk_ret>>
               ELSE /\ wk_ret' = "stopped"
                    /\ UNCHANGED <<worker_task, cancel_req, stop_pc>>
    /\ UNCHANGED <<live_loops, loop_pc, error_log, pass_exc>>

\* TimeoutWorker.stop, from the end of the loop task to its return
stop_return ==
    /\ stop_pc = "awaiting"
    /\ loop_pc = "done"
    /\ worker_task' = FALSE
    /\ loop_pc' = "none"
    /\ stop_pc' = "idle"
    /\ wk_ret' = "stopped"
    /\ UNCHANGED <<running, live_loops, cancel_req, error_log, pass_exc>>

\* an exception of a candidate's store call ends the whole pass
SweepExcept_aborts ==
    /\ sw_pc \in {"get_task", "save_task", "get_bot", "save_bot"}
    /\ error_log' = error_log \cup {all_tasks[idx].id}
    /\ SweepLocalsGone
    /\ UNCHANGED <<bots, tasks, nextBot, nextTask, now, ret>>

\* process_timeouts: a store call made for the current candidate raises;
\* except Exception logs the listed task's id and continues
SweepExcept ==
    /\ sw_pc \in {"get_task", "save_task", "get_bot", "save_bot"}
    /\ error_log' = error_log \cup {all_tasks[idx].id}
    /\ SweepContinue
    /\ UNCHANGED <<bots, tasks, nextBot, nextTask, now, ret, all_tasks,
                   timed_out_count, sw_saves>>

\* _run_loop: the task's first step, or the sleep is over; while self._running
run_loop_while ==
    /\ loop_pc \in {"created", "sleep"}
    /\ ~cancel_req
    /\ IF running
       THEN /\ loop_pc' = "pass"
            /\ error_log' = {}
            /\ pass_exc' = FALSE
            /\ UNCHANGED live_loops
       ELSE /\ loop_pc' = "done"
            /\ live_loops' = live_loops - 1
            /\ UNCHANGED <<error_log, pass_exc>>
    /\ UNCHANGED <<running, worker_task, cancel_req, stop_pc, wk_ret>>
    /\ UNCHANGED <<corevars, swvars, wsvars, asvars, handlers, wfvars>>

\* _run_loop: await self.process_timeouts(), one store call at a time; when
\* the pass returns the loop goes to its sleep
run_loop_pass ==
    /\ loop_pc = "pass"
    /\ ~cancel_req
    /\ process_timeouts
    /\ loop_pc' = IF sw_pc' = "idle" THEN "sleep" ELSE "pass"
    /\ UNCHANGED <<running, worker_task, live_loops, cancel_req, stop_pc, wk_ret,
                   error_log, pass_exc, wsvars, asvars, handlers, wfvars>>

\* _run_loop: a store call of the pass raises inside the pass's try
run_loop_pass_except ==
    /\ loop_pc = "pass"
    /\ ~cancel_req
    /\ SweepExcept
    /\ UNCHANGED <<running, worker_task, live_loops, loop_pc, cancel_req, stop_pc,
                   wk_ret, pass_exc, wsvars, asvars, handlers, wfvars>>

\* the loop ends when a pass raises
run_loop_except_ends ==
    /\ loop_pc = "pass"
    /\ ~cancel_req
    /\ sw_pc = "idle"
    /\ pass_exc' = TRUE
    /\ loop_pc' = "done"
    /\ live_loops' = live_loops - 1
    /\ UNCHANGED <<running, worker_task, cancel_req, stop_pc, wk_ret, error_log>>
    /\ UNCHANGED <<corevars, swvars, wsvars, asvars, handlers, wfvars>>

\* _run_loop: get_all raises, so process_timeouts raises; except Exception
\* logs it and the loop goes to its sleep
run_loop_except ==
    /\ loop_pc = "pass"
    /\ ~cancel_req
    /\ sw_pc = "idle"
    /\ pass_exc' = TRUE
    /\ loop_pc' = "sleep"
    /\ UNCHANGED <<running, worker_task, live_loops, cancel_req, stop_pc, wk_ret,
                   error_log>>
    /\ UNCHANGED <<corevars, swvars, wsvars, asvars, handlers, wfvars>>

\* _run_loop: the cancellation requested by stop() arrives at the await the
\* task is suspended in.  CancelledError is no Exception: inside a pass it
\* passes both except clauses, in the sleep it is caught and breaks the loop.
run_loop_cancelled ==
    /\ cancel_req
    /\ loop_pc \in {"created", "pass", "sleep"}
    /\ cancel_req' = FALSE
    /\ loop_pc' = "done"
    /\ live_loops' = live_loops - 1
    /\ SweepLocalsGone
    /\ UNCHANGED <<running, worker_task, stop_pc, wk_ret, error_log, pass_exc>>
    /\ UNCHANGED <<corevars, wsvars, asvars, handlers, wfvars>>

run_loop ==
    \/ run_loop_while
    \/ run_loop_pass
    \/ run_loop_pass_except
    \/ run_loop_except
    \/ run_loop_cancelled

WorkerNext ==
    \/ start /\ UNCHANGED <<corevars, swvars, wsvars, asvars, handlers, wfvars>>
    \/ stop /\ UNCHANGED <<corevars, swvars, wsvars, asvars, handlers, wfvars>>
    \/ stop_return /\ UNCHANGED <<corevars, swvars, wsvars, asvars, handlers, wfvars>>
    \/ loop_pc # "pass" /\ now < WorkerMaxTime /\ Tick /\ UNCHANGED extvars
    \/ run_loop

\* the event loop runs a task that can run: the loop task, and the caller
\* of stop() once the loop task has ended
InitWorker ==
    /\ WorkerInit
    /\ WsInit
    /\ AssignInit
    /\ ControlInit
    /\ WorkflowInit
    /\ WorkerStoreInit

SpecWorker ==
    /\ InitWorker
    /\ [][WorkerNext]_vars
    /\ WF_vars(run_loop)
    /\ WF_vars(stop_return /\ UNCHANGED <<corevars, swvars, wsvars, asvars, handlers, wfvars>>)

\* the step in which process_timeouts returns its count to _run_loop
PassReturns ==
    /\ loop_pc = "pass"
    /\ sw_pc = "loop"
    /\ idx > Len(all_tasks)
    /\ sw_pc' = "idle"
    /\ loop_pc' = "sleep"

\* the step in which the pass's except clause logs a candidate's error
ErrorLogged == error_log' # error_log /\ error_log' # {}

\* C35: once the sweeper has saved a task as failed for timeout, the task's
\* busy bot is saved as online before the sweeper loop ends: when no loop
\* task is left, no failed task's bot is busy.
C35_ReleaseBeforeLoopEnds ==
    live_loops = 0 =>
        \A t \in DOMAIN tasks :
            (tasks[t].status = "failed" /\ Has(bots, tasks[t].bot_id)) =>
                bots[tasks[t].bot_id].status # "busy"

\* C11: an error raised by a store call made for one candidate does not
\* abort the pass: the pass goes on with the next listed task, and when it
\* returns every listed task that was in progress past its timeout and
\* raised no error is stored as failed, and its bot is not busy.
C11_ErrorDoesNotAbortPass ==
    [][ /\ ErrorLogged =>
              /\ sw_pc' = "loop"
              /\ idx' = idx + 1
              /\ all_tasks' = all_tasks
              /\ loop_pc' = "pass"
        /\ PassReturns =>
              \A i \in 1..Len(all_tasks) :
                  LET c == all_tasks[i] IN
                  (Task_is_timed_out(c, now) /\ c.id \notin error_log) =>
                      /\ tasks[c.id].status = "failed"
                      /\ tasks[c.id].result.reason = "timeout"
                      /\ bots[c.bot_id].status = "online"
      ]_vars

\* a pass in which the newer task raised and the older one was still failed
C11_Witness ==
    /\ loop_pc = "sleep"
    /\ error_log = {2}
    /\ tasks[2].status = "in_progress"
    /\ tasks[1].status = "failed"
    /\ bots[1].status = "online"

\* the listed tasks this pass has changed to failed in the store
FailedByPass ==
    {i \in 1..Len(all_tasks) :
        /\ all_tasks[i].status # "failed"
        /\ tasks[all_tasks[i].id].status = "failed"}

\* C12: the count a pass returns is the number of tasks whose stored status
\* the pass changed to failed, whatever the bot store's calls do.
C12_CountIsTasksFailed ==
    [][PassReturns => timed_out_count = Cardinality(FailedByPass)]_vars

\* C13: start() on a running worker changes nothing but the warning, and
\* there is never more than one loop task.
C13_StartIdempotent ==
    [][ /\ (running /\ start /\ UNCHANGED <<corevars, swvars, wsvars, asvars, handlers, wfvars>>) =>
              /\ wk_ret' = "already running"
              /\ UNCHANGED <<running, worker_task, live_loops, loop_pc, cancel_req,
                             stop_pc>>
        /\ live_loops' <= 1
      ]_vars

C13_Witness ==
    /\ wk_ret = "already running"
    /\ running
    /\ live_loops = 1
    /\ loop_pc = "pass"

\* C14: stop() returns, from a pass as from the sleep; once it has returned
\* the worker is not running, no loop task is left and no pass touches the
\* stores until start(); stop() on a stopped worker changes nothing.
C14_StopTerminates ==
    /\ [](stop_pc = "idle" /\ ~running => live_loops = 0 /\ loop_pc = "none")
    /\ [][ /\ (stop_pc = "idle" /\ ~running /\ running' = running) =>
                 UNCHANGED <<bots, tasks, swvars, live_loops, loop_pc, worker_task>>
           /\ (stop_pc = "awaiting" /\ stop_pc' = "idle") =>
                 ~running' /\ live_loops' = 0 /\ wk_ret' = "stopped"
         ]_vars
    /\ (stop_pc = "awaiting") ~> (stop_pc = "idle" /\ ~running)

\* stop() is waiting for a loop that is inside a pass
C14_Witness ==
    /\ stop_pc = "awaiting"
    /\ loop_pc = "pass"
    /\ sw_pc = "save_task"

\* C15: a pass that ends, by returning or by raising, is followed by the
\* sleep, and while the worker runs the sleep is followed by another pass.
C15_LoopSurvivesFailingPass ==
    /\ [][ /\ (loop_pc = "pass" /\ loop_pc' # "pass" /\ ~cancel_req) =>
                 loop_pc' = "sleep" /\ live_loops' = live_loops
           /\ (pass_exc' /\ ~pass_exc) => loop_pc' = "sleep" /\ running'
         ]_vars
    /\ (loop_pc = "sleep" /\ pass_exc /\ running) ~> (loop_pc = "pass" \/ ~running)

C15_Witness ==
    /\ loop_pc = "sleep"
    /\ pass_exc
    /\ running

\* ----------------------------------------------- WebSocketConnectionManager
WsBots     == 2     \* bot ids 1..WsBots connect
WsChannels == 2     \* WebSocket objects 1..WsChannels
WsTasks    == 1

WsBotIds    == 1..WsBots
WebSockets  == 1..WsChannels
WsTaskIds   == 1..WsTasks

\* a dict as the set of its items
DictKeys(dct) == {p[1] : p \in dct}

DictGet(dct, k) ==
    IF k \in DictKeys(dct) THEN (CHOOSE p \in dct : p[1] = k)[2] ELSE NoWebSocket

\* an assignment that adds an item and keeps the key's old one
DictSet_appends(dct, k, v) == dct \cup {<<k, v>>}

\* dct[k] = v
DictSet(dct, k, v) == {p \in dct : p[1] # k} \cup {<<k, v>>}

\* a pop that empties the dict
DictPop_clears(dct, k) == {}

\* dct.pop(k, None)
DictPop(dct, k) == {p \in dct : p[1] # k}

is_connected(bot_id) == bot_id \in DictKeys(connections)
get_connection(bot_id) == DictGet(connections, bot_id)
get_connection_count == Cardinality(DictKeys(connections))

\* the None that get_connection_info returns for a bot without entry
NoConnectionInfo == NoTime

get_connection_info(bot_id) ==
    IF bot_id \in DictKeys(connection_info)
    THEN (CHOOSE p \in connection_info : p[1] = bot_id)[2]
    ELSE NoConnectionInfo

\* list(self._connections.keys()), as the set of its members
get_all_connected_bot_ids == DictKeys(connections)

\* WebSocketConnectionManager.connect
connect(bot_id, websocket) ==
    /\ connections' = DictSet(connections, bot_id, websocket)
    /\ connection_info' = DictSet(connection_info, bot_id, now)
    /\ ws_call' = [op |-> "connect", bot_id |-> bot_id, websocket |-> websocket,
                   was_connected |-> is_connected(bot_id)]

\* a disconnect that removes the channel and keeps the info
disconnect_keeps_info(bot_id) ==
    /\ connections' = DictPop(connections, bot_id)
    /\ connection_info' = connection_info
    /\ ws_call' = [op |-> "disconnect", bot_id |-> bot_id, websocket |-> NoWebSocket,
                   was_connected |-> is_connected(bot_id)]

\* WebSocketConnectionManager.disconnect
disconnect(bot_id) ==
    /\ connections' = DictPop(connections, bot_id)
    /\ connection_info' = DictPop(connection_info, bot_id)
    /\ ws_call' = [op |-> "disconnect", bot_id |-> bot_id, websocket |-> NoWebSocket,
                   was_connected |-> is_connected(bot_id)]

JSONResponse(status_code, detail) == [status_code |-> status_code, detail |-> detail]

\* broadcast_task_assignment, up to its await of get_task
broadcast_task_assignment(task_id, bot_id) ==
    /\ bc_pc = "idle"
    /\ LET websocket == get_connection(bot_id) IN
       IF websocket = NoWebSocket
       THEN /\ bc_ret' = JSONResponse(404, "Bot not connected")
            /\ UNCHANGED <<bc_pc, bc_args>>
       ELSE /\ bc_pc' = "get_task"
            /\ bc_args' = [task_id |-> task_id, bot_id |-> bot_id, websocket |-> websocket]
            /\ bc_ret' = NoResponse
    /\ UNCHANGED <<connections, connection_info, ws_call, sent>>

\* broadcast_task_assignment: task = await task_service.get_task(task_id)
broadcast_get_task ==
    /\ bc_pc = "get_task"
    /\ IF ~Has(tasks, bc_args.task_id)
       THEN /\ bc_ret' = JSONResponse(404, "Task not found")
            /\ bc_pc' = "idle"
            /\ bc_args' = NoArgs
       ELSE /\ bc_pc' = "send"
            /\ UNCHANGED <<bc_ret, bc_args>>
    /\ UNCHANGED <<connections, connection_info, ws_call, sent>>

\* a failed send that leaves the registry as it is
broadcast_send_keeps_entry(ok) ==
    /\ bc_pc = "send"
    /\ sent' = {<<bc_args.bot_id, bc_args.websocket, bc_args.task_id>>}
    /\ bc_ret' = IF ok THEN JSONResponse(200, "sent")
                 ELSE JSONResponse(500, "Failed to send message")
    /\ bc_pc' = "idle"
    /\ bc_args' = NoArgs
    /\ UNCHANGED <<connections, connection_info, ws_call>>

\* broadcast_task_assignment: await websocket.send_json(...), which returns
\* (ok) or raises; on an exception the bot is disconnected
broadcast_send(ok) ==
    /\ bc_pc = "send"
    /\ sent' = {<<bc_args.bot_id, bc_args.websocket, bc_args.task_id>>}
    /\ IF ok
       THEN /\ bc_ret' = JSONResponse(200, "sent")
            /\ UNCHANGED <<connections, connection_info, ws_call>>
       ELSE /\ disconnect(bc_args.bot_id)
            /\ bc_ret' = JSONResponse(500, "Failed to send message")
    /\ bc_pc' = "idle"
    /\ bc_args' = NoArgs

WsNext ==
    \/ \E b \in WsBotIds, ws \in WebSockets :
           connect(b, ws) /\ UNCHANGED <<corevars, swvars, wkvars, asvars, handlers, wfvars, bc_pc, bc_args, bc_ret, sent>>
    \/ \E b \in WsBotIds :
           disconnect(b) /\ UNCHANGED <<corevars, swvars, wkvars, asvars, handlers, wfvars, bc_pc, bc_args, bc_ret, sent>>
    \/ \E t \in WsTaskIds, b \in WsBotIds :
           broadcast_task_assignment(t, b) /\ UNCHANGED <<corevars, swvars, wkvars, asvars, handlers, wfvars>>
    \/ broadcast_get_task /\ UNCHANGED <<corevars, swvars, wkvars, asvars, handlers, wfvars>>
    \/ \E ok \in BOOLEAN : broadcast_send(ok) /\ UNCHANGED <<corevars, swvars, wkvars, asvars, handlers, wfvars>>
    \/ nextTask < WsTasks /\ \E w \in WorkflowIdInputs, s \in TimeoutInputs : create_task(w, s) /\ UNCHANGED extvars

SpecWs == Init /\ [][WsNext]_vars

\* C40: after any sequence of connect and disconnect the two maps of the
\* registry have the same keys, so for every bot is_connected, a channel from
\* get_connection, an info from get_connection_info and membership in
\* get_all_connected_bot_ids go together, and get_connection_count is the
\* number of those ids.
C40_MapsShareKeys ==
    /\ DictKeys(connections) = DictKeys(connection_info)
    /\ \A b \in WsBotIds :
          /\ is_connected(b) <=> get_connection(b) # NoWebSocket
          /\ is_connected(b) <=> get_connection_info(b) # NoConnectionInfo
          /\ is_connected(b) <=> b \in get_all_connected_bot_ids
    /\ get_connection_count = Cardinality(get_all_connected_bot_ids)

\* of two connected bots the first was disconnected; the second alone is
\* left in both maps
C40_Witness ==
    /\ ws_call.op = "disconnect"
    /\ ws_call.bot_id = 1
    /\ ws_call.was_connected
    /\ get_all_connected_bot_ids = {2}
    /\ get_connection_info(1) = NoConnectionInfo
    /\ get_connection_info(2) # NoConnectionInfo
    /\ get_connection_count = 1

\* C16: the registry holds at most one channel per bot: a connect puts its
\* channel in the bot's entry, and for a bot that had an entry the count
\* stays what it was.
C16_OneChannelPerBot ==
    /\ [](\A p, q \in connections : p[1] = q[1] => p = q)
    /\ [][\A b \in WsBotIds, ws \in WebSockets :
             (connect(b, ws) /\ UNCHANGED <<bc_pc, bc_args, bc_ret, sent>>) =>
                 /\ {p[2] : p \in {q \in connections' : q[1] = b}} = {ws}
                 /\ is_connected(b) =>
                        Cardinality(connections') = Cardinality(connections)
                 /\ \A q \in connections : q[1] # b => q \in connections'
         ]_vars

\* a second connect of bot 1, with another channel, while bot 2 is connected
C16_Witness ==
    /\ ws_call = [op |-> "connect", bot_id |-> 1, websocket |-> 2, was_connected |-> TRUE]
    /\ <<1, 1, 1>> \in sent
    /\ connections = {<<1, 2>>, <<2, 1>>}
    /\ get_connection_count = 2

\* C17: disconnect(b) leaves b without an entry, whether it had one or not,
\* and every other bot's entry as it was.
C17_DisconnectFrame ==
    [][\A b \in WsBotIds :
          (disconnect(b) /\ UNCHANGED <<bc_pc, bc_args, bc_ret, sent>>) =>
              /\ b \notin {p[1] : p \in connections'}
              /\ b \notin {p[1] : p \in connection_info'}
              /\ \A c \in WsBotIds \ {b} :
                     /\ {p \in connections' : p[1] = c} = {p \in connections : p[1] = c}
                     /\ {p \in connection_info' : p[1] = c}
                            = {p \in connection_info : p[1] = c}
      ]_vars

\* bot 1 was disconnected while bot 2 stays connected
C17_Witness ==
    /\ ws_call = [op |-> "disconnect", bot_id |-> 1, websocket |-> NoWebSocket,
                  was_connected |-> TRUE]
    /\ connections = {<<2, 2>>}
    /\ get_connection(2) = 2
    /\ ~is_connected(1)

\* C18: a broadcast whose send fails answers 500 with the bot's entry
\* removed, and nothing is passed to send_json for a bot without an entry.
C18_FailedPushDisconnects ==
    [][ /\ (bc_pc = "send" /\ bc_pc' = "idle" /\ bc_ret'.status_code # 200) =>
              /\ bc_ret' = JSONResponse(500, "Failed to send message")
              /\ bc_args.bot_id \notin {p[1] : p \in connections'}
        /\ (bc_pc = "idle" /\ bc_pc' # "idle") => is_connected(bc_args'.bot_id)
        /\ (bc_pc = "idle" /\ bc_ret'.detail = "Bot not connected") =>
              sent' = sent /\ bc_pc' = "idle"
        /\ sent' # sent => bc_pc = "send"
      ]_vars

\* a push over bot 1's channel failed and bot 1 has no entry left
C18_Witness ==
    /\ bc_ret = JSONResponse(500, "Failed to send message")
    /\ <<1, 1, 1>> \in sent
    /\ ~is_connected(1)
    /\ ws_call.op = "disconnect"
    /\ ws_call.was_connected

\* -------------------------------------------------- assign_task_to_bot
\* C19: assign_task_to_bot on an absent task or an absent bot raises
\* ResourceNotFound and saves nothing.
C19_AssignAbsentRaises ==
    [][\A t \in TaskIds, b \in BotIds :
          (assign_task_to_bot(t, b) /\ (~Has(tasks, t) \/ ~Has(bots, b))) =>
              /\ ret' \in {ResourceNotFound("Task", t), ResourceNotFound("Bot", b)}
              /\ UNCHANGED <<tasks, bots>>
      ]_vars

\* a pending task was offered to a bot that is not stored
C19_Witness ==
    /\ ret = ResourceNotFound("Bot", 1)
    /\ ~Has(bots, 1)
    /\ Has(tasks, 1)
    /\ tasks[1].status = "pending"
    /\ tasks[1].bot_id = NoBot

\* C20: a successful assign_task_to_bot stores the task as assigned to the
\* given bot and leaves the bot store, and every other task, as it was.
C20_AssignLeavesBot ==
    [][\A t \in TaskIds, b \in BotIds :
          (/\ assign_task_to_bot(t, b)
           /\ Has(tasks, t) /\ Has(bots, b)
           /\ tasks[t].status = "pending") =>
              /\ ret' = NoExc
              /\ bots' = bots
              /\ tasks'[t].status = "assigned"
              /\ tasks'[t].bot_id = b
              /\ \A u \in DOMAIN tasks \ {t} : tasks'[u] = tasks[u]
      ]_vars

\* a task was assigned to a bot that is still offline, as registered
C20_Witness ==
    /\ ret = NoExc
    /\ Has(tasks, 1) /\ Has(bots, 1)
    /\ tasks[1].status = "assigned"
    /\ tasks[1].bot_id = 1
    /\ bots[1].status = "offline"
    /\ bots[1].last_seen = NoTime


\* ------------------------------------------------------- bot release step
\* C21: a complete_task, fail_task or cancel_task call that passes the
\* task's guard while the task's bot is not stored, or is stored online or
\* offline, raises nothing, saves the task in its terminal status and leaves
\* the bot store as it was; an offline bot is not turned online.
C21_ReleaseIsConditional ==
    [][\A t \in DOMAIN tasks :
        (/\ tasks[t].bot_id # NoBot
         /\ ~BotBusyFor(t)
         /\ \/ tasks[t].status = "in_progress" /\ \E r \in ResultInputs : complete_task(t, r)
            \/ tasks[t].status = "in_progress" /\ \E e \in ErrorInputs : fail_task(t, e)
            \/ cancel_task(t))
        => /\ ret' = NoExc
           /\ Task_is_terminal(tasks'[t])
           /\ tasks'[t].completed_at = now
           /\ bots' = bots
      ]_vars

\* a task was completed while its bot was stored offline, and the bot is
\* still offline, never seen
C21_Witness ==
    /\ ret = NoExc
    /\ Has(tasks, 1) /\ Has(bots, 1)
    /\ tasks[1].status = "completed"
    /\ tasks[1].bot_id = 1
    /\ bots[1] = NewBot(1)


\* ------------------------------------- concurrent assign_task_to_bot calls
\* Each caller runs assign_task_to_bot one await at a time; other callers
\* and the creation of bots and tasks run in between.
AssignBots == 2
AssignTasks == 1
AssignBotIds == 1..AssignBots
AssignTaskIds == 1..AssignTasks

\* a caller enters assign_task_to_bot(task_id, bot_id)
assign_call(c, task_id, bot_id) ==
    /\ as_pc[c] = "idle"
    /\ as_pc' = [as_pc EXCEPT ![c] = "get_task"]
    /\ as_args' = [as_args EXCEPT ![c] = [task_id |-> task_id, bot_id |-> bot_id]]
    /\ UNCHANGED <<tasks, as_task, as_ret>>

\* task = await self._task_repo.get(task_id); raise if None
assign_get_task(c) ==
    /\ as_pc[c] = "get_task"
    /\ IF ~Has(tasks, as_args[c].task_id)
       THEN /\ as_ret' = [as_ret EXCEPT ![c] = ResourceNotFound("Task", as_args[c].task_id)]
            /\ as_pc' = [as_pc EXCEPT ![c] = "done"]
            /\ UNCHANGED as_task
       ELSE /\ as_task' = [as_task EXCEPT ![c] = tasks[as_args[c].task_id]]
            /\ as_pc' = [as_pc EXCEPT ![c] = "get_bot"]
            /\ UNCHANGED as_ret
    /\ UNCHANGED <<tasks, as_args>>

\* bot = await self._bot_repo.get(bot_id); raise if None
assign_get_bot(c) ==
    /\ as_pc[c] = "get_bot"
    /\ IF ~Has(bots, as_args[c].bot_id)
       THEN /\ as_ret' = [as_ret EXCEPT ![c] = ResourceNotFound("Bot", as_args[c].bot_id)]
            /\ as_pc' = [as_pc EXCEPT ![c] = "done"]
       ELSE /\ as_pc' = [as_pc EXCEPT ![c] = "save"]
            /\ UNCHANGED as_ret
    /\ UNCHANGED <<tasks, as_args, as_task>>

\* the save step over a store that refuses a task that is no longer pending
assign_save_checked(c) ==
    /\ as_pc[c] = "save"
    /\ LET r == Task_assign_to(as_task[c], as_args[c].bot_id) IN
       IF r.exc # NoExc
       THEN /\ as_ret' = [as_ret EXCEPT ![c] = r.exc]
            /\ UNCHANGED <<tasks, as_task>>
       ELSE IF Has(tasks, r.val.id) /\ tasks[r.val.id].status # "pending"
       THEN /\ as_ret' = [as_ret EXCEPT ![c] =
                             InvalidStateTransition("Task", tasks[r.val.id].status, "assign_to")]
            /\ UNCHANGED <<tasks, as_task>>
       ELSE /\ as_task' = [as_task EXCEPT ![c] = r.val]
            /\ tasks' = Save(tasks, r.val.id, r.val)
            /\ as_ret' = [as_ret EXCEPT ![c] = NoExc]
    /\ as_pc' = [as_pc EXCEPT ![c] = "done"]
    /\ UNCHANGED as_args

\* task.assign_to(bot_id) on the local copy, then await self._task_repo.save(task)
assign_save(c) ==
    /\ as_pc[c] = "save"
    /\ LET r == Task_assign_to(as_task[c], as_args[c].bot_id) IN
       IF r.exc # NoExc
       THEN /\ as_ret' = [as_ret EXCEPT ![c] = r.exc]
            /\ UNCHANGED <<tasks, as_task>>
       ELSE /\ as_task' = [as_task EXCEPT ![c] = r.val]
            /\ tasks' = Save(tasks, r.val.id, r.val)
            /\ as_ret' = [as_ret EXCEPT ![c] = NoExc]
    /\ as_pc' = [as_pc EXCEPT ![c] = "done"]
    /\ UNCHANGED as_args

\* the call has returned or raised; the caller may call again
assign_return(c) ==
    /\ as_pc[c] = "done"
    /\ as_pc' = [as_pc EXCEPT ![c] = "idle"]
    /\ as_args' = [as_args EXCEPT ![c] = NoAssignArgs]
    /\ as_task' = [as_task EXCEPT ![c] = NoTask]
    /\ UNCHANGED <<tasks, as_ret>>

\* what an assign step leaves alone
AssignFrame == UNCHANGED <<bots, nextBot, nextTask, now, ret, swvars, wkvars, wsvars, handlers,
                          wfvars>>

AssignNext ==
    \/ nextBot < AssignBots /\ register_bot /\ UNCHANGED extvars
    \/ nextTask < AssignTasks /\ \E w \in WorkflowIdInputs, s \in TimeoutInputs :
           create_task(w, s) /\ UNCHANGED extvars
    \/ \E c \in Callers, t \in AssignTaskIds, b \in AssignBotIds :
           assign_call(c, t, b) /\ AssignFrame
    \/ \E c \in Callers : assign_get_task(c) /\ AssignFrame
    \/ \E c \in Callers : assign_get_bot(c) /\ AssignFrame
    \/ \E c \in Callers : assign_save(c) /\ AssignFrame
    \/ \E c \in Callers : assign_return(c) /\ AssignFrame

SpecAssign == Init /\ [][AssignNext]_vars

\* C22: over a store with plain get and save, the save step of an
\* assign_task_to_bot call whose local copy of the task is pending returns
\* success and leaves the stored task assigned to that call's bot, whatever
\* another caller has saved in between: of two interleaved calls that both
\* read the task as pending, both succeed and the later save decides bot_id.
C22_LastSaveWins ==
    [][\A c \in Callers :
          (assign_save(c) /\ AssignFrame /\ as_task[c].status = "pending") =>
              /\ as_ret'[c] = NoExc
              /\ tasks'[as_args[c].task_id].status = "assigned"
              /\ tasks'[as_args[c].task_id].bot_id = as_args[c].bot_id
      ]_vars

\* both callers have returned successfully from assigning task 1, caller 1
\* to bot 1 and caller 2 to bot 2, and the store holds bot 2
C22_Witness ==
    /\ as_pc[1] = "done" /\ as_pc[2] = "done"
    /\ as_ret[1] = NoExc /\ as_ret[2] = NoExc
    /\ as_args[1] = [task_id |-> 1, bot_id |-> 1]
    /\ as_args[2] = [task_id |-> 1, bot_id |-> 2]
    /\ as_task[1].bot_id = 1 /\ as_task[2].bot_id = 2
    /\ tasks[1].status = "assigned"
    /\ tasks[1].bot_id = 2

\* ------------------------------------------------- bot status transitions
\* The bot operations that call the aggregate's transitions: the service
\* calls and the two ends of a bot's control websocket.
BotCount == 1
BotMaxTime == 2
BotHandlers == 2

\* the number of handlers running for a bot
HandlersOf(bot_id) == IF bot_id \in DOMAIN handlers THEN Len(handlers[bot_id]) ELSE 0

\* the websockets held by running handlers
OpenWebSockets ==
    UNION {{handlers[b][i] : i \in DOMAIN handlers[b]} : b \in DOMAIN handlers}

\* sequence s without its i-th element
RemoveAt(s, i) == [j \in 1..(Len(s) - 1) |-> IF j < i THEN s[j] ELSE s[j + 1]]
BotCountIds == 1..BotCount

\* websocket_control up to its message loop: the bot is looked up, the
\* connection registered, and an offline bot goes online
websocket_control_connect(bot_id, websocket) ==
    /\ IF ~Has(bots, bot_id)
       THEN UNCHANGED <<bots, connections, connection_info, ws_call, handlers>>
       ELSE /\ connect(bot_id, websocket)
            /\ handlers' = (bot_id :> (IF bot_id \in DOMAIN handlers
                                       THEN Append(handlers[bot_id], websocket)
                                       ELSE <<websocket>>)) @@ handlers
            /\ IF bots[bot_id].status = "offline"
               THEN bots' = Save(bots, bot_id, Bot_go_online(bots[bot_id], now))
               ELSE UNCHANGED bots
    /\ UNCHANGED <<tasks, nextBot, nextTask, now, ret, swvars>>

\* websocket_control on WebSocketDisconnect: the connection is removed and
\* the bot, if still stored, goes offline
websocket_control_disconnect(bot_id) ==
    /\ HandlersOf(bot_id) > 0
    /\ disconnect(bot_id)
    /\ \E i \in 1..HandlersOf(bot_id) :
          handlers' = [handlers EXCEPT ![bot_id] = RemoveAt(@, i)]
    /\ IF ~Has(bots, bot_id)
       THEN UNCHANGED bots
       ELSE bots' = Save(bots, bot_id, Bot_go_offline(bots[bot_id]))
    /\ UNCHANGED <<tasks, nextBot, nextTask, now, ret, swvars>>

\* what a websocket_control step leaves alone
ControlFrame == UNCHANGED <<wkvars, asvars, wfvars, bc_pc, bc_args, bc_ret, sent>>

BotNext ==
    \/ now < BotMaxTime /\ Tick /\ UNCHANGED extvars
    \/ nextBot < BotCount /\ register_bot /\ UNCHANGED extvars
    \/ \E b \in BotCountIds : BotService_heartbeat(b) /\ UNCHANGED extvars
    \/ \E b \in BotCountIds : mark_bot_busy(b) /\ UNCHANGED extvars
    \/ \E b \in BotCountIds : mark_bot_available(b) /\ UNCHANGED extvars
    \/ \E b \in BotCountIds : delete_bot(b) /\ UNCHANGED extvars
    \/ \E b \in BotCountIds, ws \in WebSockets :
           /\ HandlersOf(b) < BotHandlers
           /\ ws \notin OpenWebSockets
           /\ websocket_control_connect(b, ws)
           /\ ControlFrame
    \/ \E b \in BotCountIds : websocket_control_disconnect(b) /\ ControlFrame

SpecBot == Init /\ [][BotNext]_vars

\* C23: mark_bot_busy on a stored bot succeeds only when the bot is online,
\* and then changes only its status; on an offline or busy bot it raises
\* InvalidStateTransition(Bot, current status, go_busy), the object keeps
\* its status and last_seen, and nothing is saved.
C23_GoBusyOnlyFromOnline ==
    [][\A b \in DOMAIN bots :
          (mark_bot_busy(b) /\ UNCHANGED extvars) =>
              IF bots[b].status = "online"
              THEN /\ ret' = NoExc
                   /\ bots' = Save(bots, b, [bots[b] EXCEPT !.status = "busy"])
              ELSE /\ ret' = InvalidStateTransition("Bot", bots[b].status, "go_busy")
                   /\ Bot_go_busy(bots[b]).val = bots[b]
                   /\ bots' = bots
      ]_vars

\* a busy bot, seen before, was asked to go busy again
C23_Witness ==
    /\ ret = InvalidStateTransition("Bot", "busy", "go_busy")
    /\ Has(bots, 1)
    /\ bots[1].status = "busy"
    /\ bots[1].last_seen # NoTime
    /\ bots[1].last_seen < now

\* C24: a heartbeat on a stored bot turns offline into online, keeps online
\* and busy as they are, and in each case sets last_seen to the current time.
C24_HeartbeatStatus ==
    [][\A b \in DOMAIN bots :
          (BotService_heartbeat(b) /\ UNCHANGED extvars) =>
              /\ ret' = NoExc
              /\ bots[b].status = "offline" => bots'[b].status = "online"
              /\ bots[b].status = "online" => bots'[b].status = "online"
              /\ bots[b].status = "busy" => bots'[b].status = "busy"
              /\ bots'[b].last_seen = now
              /\ bots'[b].id = bots[b].id
      ]_vars

\* a busy bot is still busy and was last seen now, later than its connection
C24_Witness ==
    /\ ret = NoExc
    /\ Has(bots, 1)
    /\ bots[1].status = "busy"
    /\ bots[1].last_seen = now
    /\ \E item \in connection_info : item[1] = 1 /\ item[2] < now

\* C25: from each status, mark_bot_available (go_online) leaves the bot
\* online with last_seen set to the current time, and the websocket's
\* disconnect (go_offline) leaves it offline with last_seen as it was;
\* neither raises.
C25_OnlineOfflineTotal ==
    [][\A b \in DOMAIN bots :
          /\ (mark_bot_available(b) /\ UNCHANGED extvars) =>
                /\ ret' = NoExc
                /\ bots' = Save(bots, b, [id |-> bots[b].id, status |-> "online",
                                         last_seen |-> now])
          /\ (websocket_control_disconnect(b) /\ ControlFrame) =>
                /\ ret' = ret
                /\ bots' = Save(bots, b, [id |-> bots[b].id, status |-> "offline",
                                         last_seen |-> bots[b].last_seen])
      ]_vars

\* a bot seen at an earlier time is offline after its websocket closed
C25_Witness ==
    /\ Has(bots, 1)
    /\ bots[1].status = "offline"
    /\ bots[1].last_seen # NoTime
    /\ bots[1].last_seen < now
    /\ ws_call.op = "disconnect"
    /\ ws_call.bot_id = 1
    /\ ws_call.was_connected

\* the handler that ends at this step is not the one whose channel the
\* registry holds, and that channel's handler is still in its message loop
ReplacedHandlerEnds(b) ==
    /\ websocket_control_disconnect(b)
    /\ ControlFrame
    /\ is_connected(b)
    /\ \E i \in DOMAIN handlers'[b] : handlers'[b][i] = get_connection(b)

\* C36: when a bot has reconnected and the handler of the replaced
\* connection ends, the registry still maps the bot to the channel of the
\* second connection and the bot is not stored as offline.
C36_ReconnectSurvivesOldHandler ==
    [][\A b \in BotCountIds :
          ReplacedHandlerEnds(b) =>
              /\ DictGet(connections', b) = get_connection(b)
              /\ Has(bots', b) => bots'[b].status # "offline"
      ]_vars

\* C39: a stored bot that is online or busy has a last_seen, and a bot that
\* has a last_seen keeps one through every operation, so that only a bot that
\* was never online has none.
C39_LastSeenOnceOnline ==
    /\ [](\A b \in DOMAIN bots :
             bots[b].status \in {"online", "busy"} => bots[b].last_seen # NoTime)
    /\ [][\A b \in DOMAIN bots \cap DOMAIN bots' :
             bots[b].last_seen # NoTime => bots'[b].last_seen # NoTime
         ]_vars

\* a bot that went online at time 0 and busy afterwards is offline at time 2,
\* with no handler left, and has kept its last_seen
C39_Witness ==
    /\ Has(bots, 1)
    /\ bots[1].status = "offline"
    /\ bots[1].last_seen = 0
    /\ now = 2
    /\ HandlersOf(1) = 0
    /\ ~is_connected(1)

\* ------------------------------------------------------ Task.is_timed_out
\* is_timed_out() as the sweeper applies it: the store holds one task whose
\* status, started_at and timeout_seconds are drawn from bounded sets, and
\* passes of the sweeper run as the clock advances.
TimeoutMaxTime == 3
MaxTimeoutSeconds == 2
TaskStatuses == {"pending", "assigned", "in_progress", "completed", "failed", "cancelled"}
StartedAtInputs == {NoTime, 0}

\* a task with the given status, started_at and timeout_seconds
TaskInput(status, started_at, timeout_seconds) ==
    [NewTask(1, 1, timeout_seconds) EXCEPT
        !.status = status,
        !.started_at = started_at,
        !.bot_id = IF status = "pending" THEN NoBot ELSE 1,
        !.result = IF status = "completed" THEN [reason |-> "ok", timeout_seconds |-> 0]
                   ELSE IF status = "failed" THEN [reason |-> "error", timeout_seconds |-> 0]
                   ELSE NoResult,
        !.completed_at = IF status \in {"completed", "failed", "cancelled"} THEN 0 ELSE NoTime]

TimeoutInit ==
    /\ WorkerInit
    /\ WsInit
    /\ AssignInit
    /\ ControlInit
    /\ WorkflowInit
    /\ bots = (1 :> [id |-> 1, status |-> "busy", last_seen |-> 0])
    /\ \E st \in TaskStatuses, sa \in StartedAtInputs, s \in 1..MaxTimeoutSeconds :
           tasks = (1 :> TaskInput(st, sa, s))
    /\ nextBot = 1
    /\ nextTask = 1
    /\ now = 0
    /\ ret = NoExc
    /\ sw_pc = "idle"
    /\ all_tasks = << >>
    /\ idx = 0
    /\ current_task = NoTask
    /\ sw_bot = NoBotRec
    /\ timed_out_count = 0
    /\ sw_saves = 0

TimeoutNext ==
    \/ now < TimeoutMaxTime /\ Tick /\ UNCHANGED extvars
    \/ SweepGetAll /\ UNCHANGED extvars
    \/ SweepLoop /\ UNCHANGED extvars
    \/ SweepGetTask /\ UNCHANGED extvars
    \/ SweepSaveTask /\ UNCHANGED extvars
    \/ SweepGetBot /\ UNCHANGED extvars
    \/ SweepSaveBot /\ UNCHANGED extvars

SpecTimeout == TimeoutInit /\ [][TimeoutNext]_vars

\* the sweeper is looking at a listed task
AtCandidate == sw_pc = "loop" /\ idx <= Len(all_tasks)

\* C26: is_timed_out() is false for a task whose status is not in_progress,
\* whatever its started_at and timeout_seconds and however late it is; the
\* sweeper passes over such a task and leaves the store as it was.
C26_OnlyInProgressTimesOut ==
    /\ [](\A t \in DOMAIN tasks :
             tasks[t].status # "in_progress" => ~Task_is_timed_out(tasks[t], now))
    /\ [][(SweepLoop /\ UNCHANGED extvars /\ AtCandidate
             /\ all_tasks[idx].status # "in_progress")
          => (sw_pc' = "loop" /\ idx' = idx + 1 /\ tasks' = tasks /\ bots' = bots)]_vars

\* a pass has just passed over a completed task that was started longer ago
\* than its timeout
C26_Witness ==
    /\ sw_pc = "loop"
    /\ idx = 2
    /\ all_tasks[1].status = "completed"
    /\ all_tasks[1].started_at # NoTime
    /\ now - all_tasks[1].started_at > all_tasks[1].timeout_seconds
    /\ tasks[1] = all_tasks[1]
    /\ sw_saves = 0

\* the listed task the sweeper is looking at has been in progress for
\* exactly d seconds more than its timeout
CandidateOverBy(d) ==
    /\ AtCandidate
    /\ all_tasks[idx].status = "in_progress"
    /\ all_tasks[idx].started_at # NoTime
    /\ now - all_tasks[idx].started_at = all_tasks[idx].timeout_seconds + d

\* C27: the comparison is strict.  A task in progress for exactly
\* timeout_seconds is not timed out and the sweeper passes over it, leaving
\* the store as it was; a task in progress for timeout_seconds + 1 is timed
\* out, the sweeper goes on to re-read it, fails the task it finds still in
\* progress and saves it as failed.
C27_StrictTimeout ==
    /\ [](\A t \in DOMAIN tasks :
             (tasks[t].status = "in_progress" /\ tasks[t].started_at # NoTime) =>
                 /\ now - tasks[t].started_at = tasks[t].timeout_seconds
                        => ~Task_is_timed_out(tasks[t], now)
                 /\ now - tasks[t].started_at = tasks[t].timeout_seconds + 1
                        => Task_is_timed_out(tasks[t], now))
    /\ [][/\ (SweepLoop /\ UNCHANGED extvars /\ CandidateOverBy(0))
               => (sw_pc' = "loop" /\ idx' = idx + 1 /\ tasks' = tasks /\ bots' = bots)
          /\ (SweepLoop /\ UNCHANGED extvars /\ CandidateOverBy(1))
               => (sw_pc' = "get_task" /\ idx' = idx)
          /\ (SweepGetTask /\ UNCHANGED extvars /\ Has(tasks, all_tasks[idx].id)
                 /\ tasks[all_tasks[idx].id].status = "in_progress")
               => (sw_pc' = "save_task" /\ current_task'.status = "failed")
          /\ (SweepSaveTask /\ UNCHANGED extvars)
               => tasks'[current_task.id].status = "failed"
         ]_vars

\* a task started at 0 with timeout_seconds 2 was failed for timeout by a
\* pass at time 3
C27_Witness ==
    /\ Has(tasks, 1)
    /\ tasks[1].status = "failed"
    /\ tasks[1].result.reason = "timeout"
    /\ tasks[1].timeout_seconds = 2
    /\ tasks[1].started_at = 0
    /\ tasks[1].completed_at = 3

\* ------------------------------------------------- task field invariants
\* C28: a stored task's bot_id is null while it is pending and non-null
\* while it is assigned, in progress, completed or failed; bot_id changes
\* only in the step from pending to assigned, so a task cancelled while
\* pending has a null bot_id and a task that reached a terminal status
\* after its assignment keeps the bot it was assigned to.
C28_BotIdFollowsAssignment ==
    /\ [](\A t \in DOMAIN tasks :
             /\ tasks[t].status = "pending" => tasks[t].bot_id = NoBot
             /\ tasks[t].status \in {"assigned", "in_progress", "completed", "failed"}
                    => tasks[t].bot_id # NoBot)
    /\ [][\A t \in DOMAIN tasks \cap DOMAIN tasks' :
             /\ tasks'[t].bot_id # tasks[t].bot_id =>
                    /\ tasks[t].status = "pending"
                    /\ tasks[t].bot_id = NoBot
                    /\ tasks'[t].status = "assigned"
             /\ (tasks[t].status = "pending" /\ tasks'[t].status = "cancelled")
                    => tasks'[t].bot_id = NoBot
             /\ (tasks[t].status \in {"assigned", "in_progress"}
                     /\ Task_is_terminal(tasks'[t]))
                    => tasks'[t].bot_id # NoBot
         ]_vars

\* one task was cancelled while pending and has no bot; the other was
\* cancelled after it was started and still names its bot
C28_Witness ==
    /\ Has(tasks, 1) /\ Has(tasks, 2)
    /\ tasks[1].status = "cancelled"
    /\ tasks[1].bot_id = NoBot
    /\ tasks[2].status = "cancelled"
    /\ tasks[2].started_at # NoTime
    /\ tasks[2].bot_id = 1

C30_CancelKeepsCompletedAt ==
    [][\A t \in DOMAIN tasks :
          (cancel_task(t) /\ UNCHANGED extvars /\ tasks[t].completed_at # NoTime) =>
              /\ tasks'[t].status = "cancelled"
              /\ tasks'[t].completed_at = tasks[t].completed_at
      ]_vars

\* ------------------------------------------------- one bot per task
\* The task operations, called one at a time by callers that may name either
\* of two bots, and passes of the sweeper that run between the calls.
BindBots == 2
BindTasks == 1
BindMaxTime == 2
BindBotIds == 1..BindBots
BindTaskIds == 1..BindTasks

\* no pass of the sweeper is under way
SweepIdle == sw_pc = "idle"

BindNext ==
    \/ SweepIdle /\ now < BindMaxTime /\ Tick /\ UNCHANGED extvars
    \/ SweepIdle /\ nextBot < BindBots /\ register_bot /\ UNCHANGED extvars
    \/ SweepIdle /\ (\E b \in BindBotIds : BotService_heartbeat(b)) /\ UNCHANGED extvars
    \/ SweepIdle /\ (\E b \in BindBotIds : mark_bot_busy(b)) /\ UNCHANGED extvars
    \/ SweepIdle /\ nextTask < BindTasks
          /\ (\E w \in WorkflowIdInputs, s \in TimeoutInputs : create_task(w, s))
          /\ UNCHANGED extvars
    \/ SweepIdle /\ (\E t \in BindTaskIds, b \in BindBotIds : assign_task_to_bot(t, b))
          /\ UNCHANGED extvars
    \/ SweepIdle /\ (\E t \in BindTaskIds : start_task(t)) /\ UNCHANGED extvars
    \/ SweepIdle /\ (\E t \in BindTaskIds, r \in ResultInputs : complete_task(t, r))
          /\ UNCHANGED extvars
    \/ SweepIdle /\ (\E t \in BindTaskIds, e \in ErrorInputs : fail_task(t, e))
          /\ UNCHANGED extvars
    \/ SweepIdle /\ (\E t \in BindTaskIds : cancel_task(t)) /\ UNCHANGED extvars
    \/ SweepGetAll /\ UNCHANGED extvars
    \/ SweepLoop /\ UNCHANGED extvars
    \/ SweepGetTask /\ UNCHANGED extvars
    \/ SweepSaveTask /\ UNCHANGED extvars
    \/ SweepGetBot /\ UNCHANGED extvars
    \/ SweepSaveBot /\ UNCHANGED extvars

SpecBind == Init /\ [][BindNext]_vars

\* C31: once a stored task has a bot_id, no task operation and no step of
\* a sweeper pass stores it with another bot_id or with none; an assign to
\* another bot raises InvalidStateTransition and leaves the task as it was.
C31_BotIdNeverChanges ==
    [][/\ \A t \in DOMAIN tasks :
             tasks[t].bot_id # NoBot =>
                 /\ t \in DOMAIN tasks'
                 /\ tasks'[t].bot_id = tasks[t].bot_id
       /\ \A t \in DOMAIN tasks, b \in DOMAIN bots :
             (assign_task_to_bot(t, b) /\ UNCHANGED extvars /\ tasks[t].bot_id # NoBot) =>
                 /\ ret' = InvalidStateTransition("Task", tasks[t].status, "assign_to")
                 /\ tasks' = tasks
      ]_vars

\* a task assigned to bot 1 and since failed by the sweeper was offered to a
\* stored bot again, and is still bound to bot 1
C31_Witness ==
    /\ ret = InvalidStateTransition("Task", "failed", "assign_to")
    /\ Has(bots, 2)
    /\ Has(tasks, 1)
    /\ tasks[1].status = "failed"
    /\ tasks[1].result.reason = "timeout"
    /\ tasks[1].bot_id = 1

\* -------------------------------------------------------- WorkflowService
\* One request at a time runs create_workflow, one await at a time, inside
\* the session that get_session opens for it: its saves are flushed to the
\* session and reach the stores when the session commits.
MaxWorkflows == 2
MaxPayloads == 2
WorkflowMaxTime == 1
DefaultTimeoutSeconds == 300     \* create_task(timeout_seconds=300)
WorkflowIds == 1..MaxWorkflows

ValidationError ==
    [type |-> "ValidationError", entity |-> "Workflow", state |-> "", action |-> "",
     id |-> 0]
\* an exception raised by a store's save
StoreError ==
    [type |-> "StoreError", entity |-> "", state |-> "", action |-> "", id |-> 0]

\* what the workflow operations leave alone
WorkflowFrame == UNCHANGED <<bots, nextBot, now, swvars, wkvars, wsvars, asvars, handlers>>

\* workflow = Workflow(name=...): raises for an invalid name
create_workflow(name_valid, n) ==
    /\ cw_pc = "idle"
    /\ IF ~name_valid
       THEN /\ cw_ret' = ValidationError
            /\ cw_pc' = "raised"
            /\ UNCHANGED <<nextWorkflow, cw_workflow, cw_payloads>>
       ELSE /\ cw_workflow' = NewWorkflow(nextWorkflow + 1)
            /\ nextWorkflow' = nextWorkflow + 1
            /\ cw_payloads' = n
            /\ cw_pc' = IF n > 0 THEN "tasks" ELSE "save"
            /\ UNCHANGED cw_ret
    /\ UNCHANGED <<tasks, nextTask, ret, workflows, tx_tasks, tx_workflows>>

\* one round of the loop: task = await task_service.create_task(...), whose
\* save may raise, then workflow.add_task(task.id)
create_workflow_task(ok) ==
    /\ cw_pc = "tasks"
    /\ nextTask' = nextTask + 1
    /\ IF ~ok
       THEN /\ cw_ret' = StoreError
            /\ cw_pc' = "raised"
            /\ UNCHANGED <<cw_workflow, cw_payloads, tx_tasks>>
       ELSE /\ tx_tasks' = Save(tx_tasks, nextTask + 1,
                                NewTask(nextTask + 1, cw_workflow.id, DefaultTimeoutSeconds))
            /\ cw_workflow' = Workflow_add_task(cw_workflow, nextTask + 1)
            /\ cw_pc' = IF Len(cw_workflow.task_ids) + 1 = cw_payloads
                        THEN "save" ELSE "tasks"
            /\ UNCHANGED <<cw_ret, cw_payloads>>
    /\ UNCHANGED <<tasks, ret, workflows, nextWorkflow, tx_workflows>>

\* await self._workflow_repo.save(workflow); return workflow
create_workflow_save(ok) ==
    /\ cw_pc = "save"
    /\ IF ~ok
       THEN /\ cw_ret' = StoreError
            /\ cw_pc' = "raised"
            /\ UNCHANGED tx_workflows
       ELSE /\ tx_workflows' = Save(tx_workflows, cw_workflow.id, cw_workflow)
            /\ cw_ret' = NoExc
            /\ cw_pc' = "returned"
    /\ UNCHANGED <<tasks, nextTask, ret, workflows, nextWorkflow, cw_workflow, cw_payloads,
                   tx_tasks>>

\* the end of the request with a session that commits whatever happened
get_session_exit_always_commits ==
    /\ cw_pc \in {"returned", "raised"}
    /\ tasks' = tx_tasks @@ tasks
    /\ workflows' = tx_workflows @@ workflows
    /\ tx_tasks' = << >>
    /\ tx_workflows' = << >>
    /\ cw_pc' = "idle"
    /\ cw_workflow' = NoWorkflow
    /\ cw_payloads' = 0
    /\ UNCHANGED <<nextTask, ret, nextWorkflow, cw_ret>>

\* get_session after its yield: commit when the request returned, rollback
\* when it raised
get_session_exit ==
    /\ cw_pc \in {"returned", "raised"}
    /\ IF cw_pc = "returned"
       THEN /\ tasks' = tx_tasks @@ tasks
            /\ workflows' = tx_workflows @@ workflows
       ELSE UNCHANGED <<tasks, workflows>>
    /\ tx_tasks' = << >>
    /\ tx_workflows' = << >>
    /\ cw_pc' = "idle"
    /\ cw_workflow' = NoWorkflow
    /\ cw_payloads' = 0
    /\ UNCHANGED <<nextTask, ret, nextWorkflow, cw_ret>>

\* what a call on a stored workflow leaves alone
StoredWorkflowFrame ==
    UNCHANGED <<tasks, nextTask, nextWorkflow, cw_pc, cw_workflow, cw_payloads, cw_ret,
                tx_tasks, tx_workflows>>

\* get the workflow, call the method, save the workflow if it did not raise
CallOnWorkflow(workflow_id, r) ==
    /\ IF r.exc # NoExc
       THEN /\ ret' = r.exc
            /\ UNCHANGED workflows
       ELSE /\ workflows' = Save(workflows, workflow_id, r.val)
            /\ ret' = NoExc
    /\ StoredWorkflowFrame

start_workflow(workflow_id) ==
    IF ~Has(workflows, workflow_id)
    THEN /\ ret' = ResourceNotFound("Workflow", workflow_id)
         /\ UNCHANGED workflows
         /\ StoredWorkflowFrame
    ELSE CallOnWorkflow(workflow_id, Workflow_start(workflows[workflow_id], now))

\* a caller that holds a stored workflow calls complete(), fail() or cancel()
workflow_complete(workflow_id) ==
    /\ Has(workflows, workflow_id)
    /\ CallOnWorkflow(workflow_id, Workflow_complete(workflows[workflow_id], now))

workflow_fail(workflow_id) ==
    /\ Has(workflows, workflow_id)
    /\ CallOnWorkflow(workflow_id, Workflow_fail(workflows[workflow_id], now))

workflow_cancel(workflow_id) ==
    /\ Has(workflows, workflow_id)
    /\ CallOnWorkflow(workflow_id, Return(Workflow_cancel(workflows[workflow_id], now)))

WorkflowNext ==
    \/ now < WorkflowMaxTime /\ Tick /\ UNCHANGED extvars
    \/ nextWorkflow < MaxWorkflows
          /\ (\E v \in BOOLEAN, n \in 0..MaxPayloads : create_workflow(v, n))
          /\ WorkflowFrame
    \/ (\E ok \in BOOLEAN : create_workflow_task(ok)) /\ WorkflowFrame
    \/ (\E ok \in BOOLEAN : create_workflow_save(ok)) /\ WorkflowFrame
    \/ get_session_exit /\ WorkflowFrame
    \/ (\E w \in WorkflowIds : start_workflow(w)) /\ WorkflowFrame
    \/ (\E w \in WorkflowIds : workflow_complete(w)) /\ WorkflowFrame
    \/ (\E w \in WorkflowIds : workflow_fail(w)) /\ WorkflowFrame
    \/ (\E w \in WorkflowIds : workflow_cancel(w)) /\ WorkflowFrame

SpecWorkflow == Init /\ [][WorkflowNext]_vars

\* the statuses of a workflow
WorkflowStatuses == {"pending", "in_progress", "completed", "failed", "cancelled"}

\* a call of method `action` on stored workflow w, allowed from the statuses
\* in `from` only, leads to status `to` or raises and leaves the store alone
WorkflowEdge(w, action, from, to) ==
    IF workflows[w].status \in from
    THEN /\ ret' = NoExc
         /\ workflows'[w].status = to
         /\ workflows'[w].task_ids = workflows[w].task_ids
    ELSE /\ ret' = InvalidStateTransition("Workflow", workflows[w].status, action)
         /\ workflows' = workflows

\* C32: start succeeds only from pending and leads to in_progress, complete
\* and fail succeed only from in_progress, cancel succeeds from every status;
\* every other call raises InvalidStateTransition with entity Workflow and
\* leaves the stored workflow as it was.
C32_WorkflowEdges ==
    [][\A w \in DOMAIN workflows :
          /\ (start_workflow(w) /\ WorkflowFrame) =>
                WorkflowEdge(w, "start", {"pending"}, "in_progress")
          /\ (workflow_complete(w) /\ WorkflowFrame) =>
                WorkflowEdge(w, "complete", {"in_progress"}, "completed")
          /\ (workflow_fail(w) /\ WorkflowFrame) =>
                WorkflowEdge(w, "fail", {"in_progress"}, "failed")
          /\ (workflow_cancel(w) /\ WorkflowFrame) =>
                WorkflowEdge(w, "cancel", WorkflowStatuses, "cancelled")
      ]_vars

\* a workflow that was started is asked to start again and stays in progress
C32_Witness ==
    /\ ret = InvalidStateTransition("Workflow", "in_progress", "start")
    /\ Has(workflows, 1)
    /\ workflows[1].status = "in_progress"
    /\ workflows[1].started_at # NoTime

\* ------------------------------------------------ workflows beside tasks
\* A workflow created with its tasks, then the task operations and sweeper
\* passes on those tasks. TaskService and TimeoutWorker hold the task store
\* and the bot store, and no workflow store.
RollupBots == 1
RollupWorkflows == 1
RollupPayloads == 2
RollupMaxTime == 1
RollupBotIds == 1..RollupBots
RollupTaskIds == 1..RollupPayloads

\* more than a task's default timeout passes
Elapse ==
    /\ now' = now + DefaultTimeoutSeconds + 1
    /\ UNCHANGED <<bots, tasks, nextBot, nextTask, ret, swvars>>

\* a task service that marks a workflow completed once all its tasks ended
TaskServiceFrame_rolls_up ==
    /\ workflows' =
          [w \in DOMAIN workflows |->
              IF /\ workflows[w].task_ids # << >>
                 /\ \A i \in DOMAIN workflows[w].task_ids :
                       /\ Has(tasks', workflows[w].task_ids[i])
                       /\ tasks'[workflows[w].task_ids[i]].status
                             \in {"completed", "failed", "cancelled"}
              THEN [workflows[w] EXCEPT !.status = "completed"]
              ELSE workflows[w]]
    /\ UNCHANGED <<wkvars, wsvars, asvars, handlers, nextWorkflow, cw_pc, cw_workflow,
                   cw_payloads, cw_ret, tx_tasks, tx_workflows>>

\* what TaskService and TimeoutWorker leave alone: they save tasks and bots
TaskServiceFrame ==
    UNCHANGED <<wkvars, wsvars, asvars, handlers, wfvars>>

\* a step of a task operation or of a sweeper pass
TaskStep ==
    \/ SweepIdle /\ (\E t \in RollupTaskIds, b \in RollupBotIds : assign_task_to_bot(t, b))
          /\ TaskServiceFrame
    \/ SweepIdle /\ (\E t \in RollupTaskIds : start_task(t)) /\ TaskServiceFrame
    \/ SweepIdle /\ (\E t \in RollupTaskIds, r \in ResultInputs : complete_task(t, r))
          /\ TaskServiceFrame
    \/ SweepIdle /\ (\E t \in RollupTaskIds, e \in ErrorInputs : fail_task(t, e))
          /\ TaskServiceFrame
    \/ SweepIdle /\ (\E t \in RollupTaskIds : cancel_task(t)) /\ TaskServiceFrame
    \/ SweepGetAll /\ TaskServiceFrame
    \/ SweepLoop /\ TaskServiceFrame
    \/ SweepGetTask /\ TaskServiceFrame
    \/ SweepSaveTask /\ TaskServiceFrame
    \/ SweepGetBot /\ TaskServiceFrame
    \/ SweepSaveBot /\ TaskServiceFrame

RollupNext ==
    \/ SweepIdle /\ now < RollupMaxTime /\ Elapse /\ UNCHANGED extvars
    \/ SweepIdle /\ nextBot < RollupBots /\ register_bot /\ UNCHANGED extvars
    \/ SweepIdle /\ (\E b \in RollupBotIds : BotService_heartbeat(b)) /\ UNCHANGED extvars
    \/ SweepIdle /\ (\E b \in RollupBotIds : mark_bot_busy(b)) /\ UNCHANGED extvars
    \/ SweepIdle /\ nextWorkflow < RollupWorkflows
          /\ (\E n \in 1..RollupPayloads : create_workflow(TRUE, n))
          /\ WorkflowFrame
    \/ SweepIdle /\ create_workflow_task(TRUE) /\ WorkflowFrame
    \/ SweepIdle /\ create_workflow_save(TRUE) /\ WorkflowFrame
    \/ SweepIdle /\ get_session_exit /\ WorkflowFrame
    \/ SweepIdle /\ (\E w \in 1..RollupWorkflows : start_workflow(w)) /\ WorkflowFrame
    \/ TaskStep

SpecRollup == Init /\ [][RollupNext]_vars

\* every task listed by workflow w is stored and has ended
AllTasksTerminal(w) ==
    /\ workflows[w].task_ids # << >>
    /\ \A i \in DOMAIN workflows[w].task_ids :
          /\ Has(tasks, workflows[w].task_ids[i])
          /\ tasks[workflows[w].task_ids[i]].status \in {"completed", "failed", "cancelled"}

\* C33: no step of a task operation and no step of a sweeper pass changes a
\* stored workflow's status or task_ids, also not the step that ends the last
\* of the workflow's tasks.
C33_TasksLeaveWorkflows ==
    [][TaskStep =>
          /\ DOMAIN workflows' = DOMAIN workflows
          /\ \A w \in DOMAIN workflows :
                /\ workflows'[w].status = workflows[w].status
                /\ workflows'[w].task_ids = workflows[w].task_ids
      ]_vars

\* a started workflow is still in progress although its two tasks have ended,
\* one of them failed by the sweeper, which released its bot
C33_Witness ==
    /\ Has(workflows, 1)
    /\ workflows[1].status = "in_progress"
    /\ Len(workflows[1].task_ids) = 2
    /\ AllTasksTerminal(1)
    /\ \E i \in 1..2 : /\ tasks[i].status = "failed"
                       /\ tasks[i].result = error_details(tasks[i])
                       /\ tasks[i].bot_id = 1
    /\ bots[1].status = "online"
    /\ bots[1].last_seen = now
    /\ now > DefaultTimeoutSeconds
    /\ sw_pc = "idle"

\* the request that commits is a create_workflow that returned
CreateWorkflowCommits == get_session_exit /\ WorkflowFrame /\ cw_pc = "returned"

\* C34: a create_workflow that returned for n payloads stores one new
\* workflow, pending, whose task_ids has length n and lists in the order of
\* creation (the order of the payloads) the ids of n newly stored tasks, each
\* pending, without bot and with the new workflow's id; nothing else is
\* stored, so with no payloads task_ids is empty and no task is stored.
C34_CreateWorkflowStores ==
    [][CreateWorkflowCommits =>
          LET w == cw_workflow.id
              ids == workflows'[w].task_ids IN
          /\ ~Has(workflows, w)
          /\ DOMAIN workflows' = DOMAIN workflows \cup {w}
          /\ \A v \in DOMAIN workflows : workflows'[v] = workflows[v]
          /\ workflows'[w].status = "pending"
          /\ Len(ids) = cw_payloads
          /\ \A i, j \in DOMAIN ids : i < j => ids[i] < ids[j]
          /\ \A i \in DOMAIN ids :
                /\ ~Has(tasks, ids[i])
                /\ Has(tasks', ids[i])
                /\ tasks'[ids[i]] = NewTask(ids[i], w, DefaultTimeoutSeconds)
          /\ DOMAIN tasks' = DOMAIN tasks \cup {ids[i] : i \in DOMAIN ids}
          /\ \A t \in DOMAIN tasks : tasks'[t] = tasks[t]
      ]_vars

\* the first workflow was stored without tasks and the second with two
C34_Witness ==
    /\ cw_pc = "idle"
    /\ Has(workflows, 1)
    /\ workflows[1].task_ids = << >>
    /\ Has(workflows, 2)
    /\ workflows[2].status = "pending"
    /\ workflows[2].task_ids = <<1, 2>>
    /\ DOMAIN tasks = {1, 2}
    /\ tasks[1].workflow_id = 2
    /\ tasks[2].workflow_id = 2

\* the request ends after create_workflow raised
CreateWorkflowRollsBack == get_session_exit /\ WorkflowFrame /\ cw_pc = "raised"

\* a step of create_workflow that raises
CreateWorkflowRaises ==
    /\ \/ \E n \in 0..MaxPayloads : create_workflow(FALSE, n)
       \/ create_workflow_task(FALSE)
       \/ create_workflow_save(FALSE)
    /\ WorkflowFrame

ChannelBots == 2
ChannelTasks == 1
ChannelMaxTime == 1
ChannelHandlers == 1
ChannelBotIds == 1..ChannelBots
ChannelTaskIds == 1..ChannelTasks

\* _handle_task_complete for a message with payload task_id and success, on
\* the channel of bot_id; the exception of the service call, kept in ret, is
\* swallowed.  bot_id is not used.
handle_task_complete(task_id, success, bot_id) ==
    IF success
    THEN \E r \in ResultInputs : complete_task(task_id, r)
    ELSE \E e \in ErrorInputs : fail_task(task_id, e)

\* a task_complete message arrives in the message loop of a handler of bot_id
websocket_control_task_complete(task_id, success, bot_id) ==
    /\ HandlersOf(bot_id) > 0
    /\ handle_task_complete(task_id, success, bot_id)
    /\ UNCHANGED extvars

ChannelNext ==
    \/ now < ChannelMaxTime /\ Tick /\ UNCHANGED extvars
    \/ nextBot < ChannelBots /\ register_bot /\ UNCHANGED extvars
    \/ nextTask < ChannelTasks
          /\ (\E w \in WorkflowIdInputs, s \in TimeoutInputs : create_task(w, s))
          /\ UNCHANGED extvars
    \/ (\E t \in ChannelTaskIds, b \in ChannelBotIds : assign_task_to_bot(t, b))
          /\ UNCHANGED extvars
    \/ (\E b \in ChannelBotIds : mark_bot_busy(b)) /\ UNCHANGED extvars
    \/ (\E t \in ChannelTaskIds : start_task(t)) /\ UNCHANGED extvars
    \/ \E b \in ChannelBotIds, ws \in WebSockets :
           /\ HandlersOf(b) < ChannelHandlers
           /\ ws \notin OpenWebSockets
           /\ websocket_control_connect(b, ws)
           /\ ControlFrame
    \/ \E b \in ChannelBotIds : websocket_control_disconnect(b) /\ ControlFrame
    \/ \E t \in ChannelTaskIds, s \in BOOLEAN, b \in ChannelBotIds :
           websocket_control_task_complete(t, s, b)

SpecChannel == Init /\ [][ChannelNext]_vars

====
